---- MODULE Spec2Model ----
(***************************************************************************)
(* NanoKernel core: the static IPC queue (src/src/ipc.rs), the task stack  *)
(* allocator (src/src/memory.rs), the spinlock (src/src/platformgeneric.rs)*)
(* and the per-architecture context switch (src/src/arch/*/task.rs), trap  *)
(* handlers (exception.rs), panic routines (panic.rs), page tables and TLB *)
(* (mmu.rs), serial console (console.rs), interrupt controllers            *)
(* (interrupt.rs), reboot paths (shutdown.rs, power.rs) and device-tree    *)
(* record (dtb.rs).                                                        *)
(*                                                                         *)
(* Each subsystem has its own specification over the shared variables; a   *)
(* specification leaves the variables of the other subsystems at their     *)
(* initial values.                                                         *)
(***************************************************************************)
EXTENDS Integers, Sequences, FiniteSets, TLC

(***************************************************************************)
(* Program constants                                                       *)
(***************************************************************************)
\* ipc.rs:35  pub const QUEUE_DEPTH: usize = 8;
QUEUE_DEPTH == 8

\* platformgeneric.rs:30  pub const MAX_TASKS: usize = 32;
MAX_TASKS == 32

\* Addresses and sizes are counted in KiB (units of 1024 bytes): every
\* address the allocator computes is a multiple of 1024, and TLC's integers
\* are 32 bits wide.
\* memory.rs:43  pub const TASK_STACKS_VADDR_START: usize = 0xC100_0000;
\* 0xC100_0000 / 1024 = 0x30_4000
TASK_STACKS_VADDR_START == 3162112

\* memory.rs:46  pub const TASK_STACK_SIZE: usize = 8 * 1024;
TASK_STACK_SIZE == 8

\* the same TASK_STACK_SIZE in bytes, for the stack pointers of the context
\* switch, which move by single registers
TASK_STACK_BYTES == 8192

\* the size of one register, u64 (arch/amd64/task.rs:18-34)
REG_BYTES == 8

\* the callee-saved registers switch_context pushes and pops on x86-64:
\* r15, r14, r13, r12, rbp, rbx (arch/amd64/task.rs:84-89, 115-120)
AMD64_PUSHED_REGS == 6

\* the length of one instruction on the RISC targets
\* (arch/rv64i/exception.rs:112  context.SEPC += 4)
INSTR_BYTES == 4

\* arch/amd64/mmu.rs:13  pub const PAGE_SIZE: usize = 4096;
PAGE_SIZE == 4096

\* arch/rv64i/mmu.rs:15  pub const TABLE_ENTRY_COUNT: usize = 512;
TABLE_ENTRY_COUNT == 512

\* bits 63..39 of arch/armv9/mmu.rs:18  KERNEL_START_VADDR =
\* 0xFFFF_8000_0000_0000, that is 0x1FF_FF00
KERNEL_START_TOP == 33554176

\* IDENTITY_MAPPING_SIZE, 16 MiB (amd64/mmu.rs:207)
IDENTITY_MAPPING_SIZE == 16777216

\* the number of TLB entries tlb_clear_all writes (mips64/mmu.rs:84)
TLB_ENTRIES == 64

\* b'\n' and b'\r' (amd64/console.rs:93-94)
LF == 10

CR == 13

\* bit 5 of the line-status register, 0x20 (amd64/console.rs:71)
LSR_THRE == 32

\* the 8042 keyboard controller: command / status port 0x64 and the reset
\* command 0xFE (amd64/shutdown.rs:14-15, amd64/power.rs:10, 47)
KBD_CTRL_PORT == 100

KBD_CMD_REBOOT == 254

\* the bound of kbd_wait's loop (amd64/power.rs:19)
KBD_WAIT_POLLS == 100000

\* the SBI system-reset call (rv64i/shutdown.rs:15-26): EID 0x53525354
EID_SRST == 1397904212

SRST_FUNCTION_SYSTEM_RESET == 0

SRST_TYPE_COLD_REBOOT == 1

SRST_REASON_NONE == 0

\* the SiFive test device (rv64i/power.rs:11-12): 0x100000 and 0x3333
SIFIVE_TEST_FAIL == 1048576

SIFIVE_TEST_REBOOT == 13107

\* the QEMU test device (armv9/shutdown.rs:25-26): 0x100000 and 0x5555
QEMU_TEST_ADDR == 1048576

QEMU_REBOOT_MAGIC == 21845

\* usize is 64 bits on the eight targets: 2^64 bytes are 2^54 KiB, written
\* as 2^27 * 2^27
USIZE_HALF_KIB == 134217728

(***************************************************************************)
(* Bounds of the model                                                     *)
(***************************************************************************)
\* number of send calls made (8 calls fill the ring and get one rejection;
\* 17 calls take the indices twice around the ring)
MaxSends == 17

\* number of contexts contending for one Spinlock
NumLockContexts == 3

\* number of lock calls each of them makes
MaxLockCalls == 2

\* number of switch_context calls in a run (the switch into the first task
\* and the two switches between the tasks are 3)
MaxSwitches == 4

\* number of traps taken in a run
MaxTraps == 2

\* number of device interrupts delivered in a run
MaxIrqs == 3

\* number of map_page calls in a run
MaxMaps == 2

\* map_tlb_entry calls made outside init_mmu
MaxTlbWrites == 3

\* the longest string handed to write_str
MaxStrLen == 3

\* operations on an interrupt controller after its init routine
MaxIcOps == 3

\* parse_dtb calls in a run
MaxDtbParses == 2

\* send calls made by the two producers that share a Spinlock (8 accepted
\* sends without a receive in between fill the ring)
MaxLockedSends == 8

(***************************************************************************)
(* State                                                                   *)
(***************************************************************************)
VARIABLES
    \* ---- IpcQueue (ipc.rs:41-48)
    messages,     \* [0..QUEUE_DEPTH-1 -> IpcMessage], the slots
    head,         \* AtomicUsize
    tail,         \* AtomicUsize
    \* ---- a context inside IpcQueue::send
    p_pc,         \* [Producers -> position in send]
    p_message,    \* the argument `message`
    p_next_tail,  \* is_full's local next_tail
    p_tail,       \* send's local tail
    p_ret,        \* what the last send call returned
    \* ---- the context inside IpcQueue::receive
    c_pc,
    c_head,       \* receive's local head
    c_message,    \* receive's local message (being cloned)
    c_ret,        \* what the last receive call returned
    \* ---- history of the calls
    sendCalls,    \* number of send calls begun
    sentOk,       \* messages for which send returned Ok, in order
    rejected,     \* messages send returned in Err
    received,     \* messages receive returned in Some, in order
    \* ---- TaskStackAllocator (memory.rs:54-66)
    is_allocated, \* GLOBAL_TASK_STACK_ALLOCATOR.is_allocated
    a_pc,         \* [AllocContexts -> position in allocate_stack / deallocate_stack]
    a_task,       \* the argument task_id
    a_ret,        \* what the last call returned
    a_overlap,    \* the call began while the other context was inside
                  \* allocate_stack for the same task_id, or the other way round
    owned,        \* slots for which allocate_stack returned Ok and
                  \* deallocate_stack has not returned Ok since
    \* ---- Spinlock (platformgeneric.rs:76-111)
    locked,       \* AtomicBool
    l_pc,         \* [LockContexts -> "idle" | "lock" | "held"]
    l_calls,      \* number of lock calls each context has made
    \* ---- context switch (arch/{amd64,armv9,rv64i}/task.rs)
    arch,         \* the backend the kernel was built for
    cpu,          \* the registers: [pc, sp, lr, regs]
    ctx,          \* [context owner -> TaskContext]
    stack_top,    \* [task -> the stack_top its TaskContext was built with]
    mem,          \* stack memory written so far: address -> saved registers
    sentinel,     \* [task -> its entry has written its sentinel]
    fresh,        \* [task -> its TaskContext is as TaskContext::new built it]
    justSwitched, \* <<from, to, to's context was fresh>> when the last step
                  \* was a switch_context, <<>> otherwise
    switchLog,    \* the switches made: <<from, to>> in order
    sp_before     \* [task -> <<its stack pointer when it first called
                  \* switch_context>>, <<>> before that]

ipcVars == <<messages, head, tail, p_pc, p_message, p_next_tail, p_tail, p_ret,
             c_pc, c_head, c_message, c_ret,
             sendCalls, sentOk, rejected, received>>

stackVars == <<is_allocated, a_pc, a_task, a_ret, a_overlap, owned>>

lockVars == <<locked, l_pc, l_calls>>

taskVars == <<arch, cpu, ctx, stack_top, mem, sentinel, fresh, justSwitched,
              switchLog, sp_before>>

(***************************************************************************)
(* IpcMessage (ipc.rs:11-32)                                               *)
(***************************************************************************)
Producers == {"p1", "p2"}

\* IpcMessage::default(): zeroed, length 0
DefaultMessage ==
    [sender_id |-> 0, message_type |-> 0, payload |-> 0, payload_size |-> 0]

\* the k-th message handed to send, by the producer with sender id s: the
\* payload carries k, so that any two messages differ (send and receive never
\* look into a message, so distinct messages are the general case)
MakeMessage(s, k) ==
    [sender_id |-> s, message_type |-> 1 + (k % 2), payload |-> k, payload_size |-> 1]

SenderId(p) == IF p = "p1" THEN 1 ELSE 2

Slots == 0 .. (QUEUE_DEPTH - 1)

\* IpcQueue::new
IpcInit ==
    /\ messages = [i \in Slots |-> DefaultMessage]
    /\ head = 0
    /\ tail = 0
    /\ p_pc = [p \in Producers |-> "idle"]
    /\ p_message = [p \in Producers |-> DefaultMessage]
    /\ p_next_tail = [p \in Producers |-> 0]
    /\ p_tail = [p \in Producers |-> 0]
    /\ p_ret = [p \in Producers |-> <<"none">>]
    /\ c_pc = "idle"
    /\ c_head = 0
    /\ c_message = DefaultMessage
    /\ c_ret = <<"none">>
    /\ sendCalls = 0
    /\ sentOk = <<>>
    /\ rejected = {}
    /\ received = <<>>

\* messages accepted by send and not yet returned by receive
Pending == Len(sentOk) - Len(received)

\* variant: the index moves on by two slots
NextIndex_ByTwo(i) == (i + 2) % QUEUE_DEPTH

\* (i + 1) % QUEUE_DEPTH (ipc.rs:69, 94, 120)
NextIndex(i) == (i + 1) % QUEUE_DEPTH

\* variant: the ring is never reported full
IsFullTest_NeverFull(next_tail, h) == FALSE

\* variant: the ring is reported full one slot early
IsFullTest_OneEarly(next_tail, h) == NextIndex(next_tail) = h

IsFullTest(next_tail, h) == next_tail = h

\* is_empty's comparison (ipc.rs:75)
IsEmptyTest(h, t) == h = t

\* variant: the rejected message is not handed back
SendErr_Default(message) == <<"Err", DefaultMessage>>

\* return Err(message) (ipc.rs:90)
SendErr(message) == <<"Err", message>>

\* the first half of the slot copy `*slot = message` (ipc.rs:99, 125)
CopyHeader(dst, src) ==
    [dst EXCEPT !.sender_id = src.sender_id, !.message_type = src.message_type]

\* the second half of the slot copy
CopyPayload(dst, src) ==
    [dst EXCEPT !.payload = src.payload, !.payload_size = src.payload_size]

(***************************************************************************)
(* IpcQueue::send (ipc.rs:85-106), one action per shared-memory access     *)
(***************************************************************************)
producerLocals == <<p_pc, p_message, p_next_tail, p_tail, p_ret>>
consumerLocals == <<c_pc, c_head, c_message, c_ret>>

\* the call, and is_full's load of tail (ipc.rs:69)
SendIsFullLoadTail(p) ==
    /\ p_pc[p] = "idle"
    /\ sendCalls < MaxSends
    /\ p_message' = [p_message EXCEPT ![p] = MakeMessage(SenderId(p), sendCalls + 1)]
    /\ sendCalls' = sendCalls + 1
    /\ p_next_tail' = [p_next_tail EXCEPT ![p] = NextIndex(tail)]
    /\ p_pc' = [p_pc EXCEPT ![p] = "is_full_head"]
    /\ UNCHANGED <<messages, head, tail, p_tail, p_ret, consumerLocals,
                   sentOk, rejected, received>>

\* is_full's load of head and the early return (ipc.rs:70, 89-91)
SendIsFullLoadHead(p) ==
    /\ p_pc[p] = "is_full_head"
    /\ IF IsFullTest(p_next_tail[p], head)
       THEN /\ p_ret' = [p_ret EXCEPT ![p] = SendErr(p_message[p])]
            /\ rejected' = rejected \cup {p_message[p]}
            /\ p_pc' = [p_pc EXCEPT ![p] = "idle"]
       ELSE /\ p_pc' = [p_pc EXCEPT ![p] = "load_tail"]
            /\ UNCHANGED <<p_ret, rejected>>
    /\ UNCHANGED <<messages, head, tail, p_message, p_next_tail, p_tail,
                   consumerLocals, sendCalls, sentOk, received>>

\* let tail = self.tail.load(Acquire) (ipc.rs:93)
SendLoadTail(p) ==
    /\ p_pc[p] = "load_tail"
    /\ p_tail' = [p_tail EXCEPT ![p] = tail]
    /\ p_pc' = [p_pc EXCEPT ![p] = "write_header"]
    /\ UNCHANGED <<messages, head, tail, p_message, p_next_tail, p_ret,
                   consumerLocals, sendCalls, sentOk, rejected, received>>

\* *self.messages[tail].get() = message (ipc.rs:99): a plain, non-atomic
\* copy of the record, modelled as two separate writes
SendWriteHeader(p) ==
    /\ p_pc[p] = "write_header"
    /\ messages' = [messages EXCEPT ![p_tail[p]] = CopyHeader(@, p_message[p])]
    /\ p_pc' = [p_pc EXCEPT ![p] = "write_payload"]
    /\ UNCHANGED <<head, tail, p_message, p_next_tail, p_tail, p_ret,
                   consumerLocals, sendCalls, sentOk, rejected, received>>

SendWritePayload(p) ==
    /\ p_pc[p] = "write_payload"
    /\ messages' = [messages EXCEPT ![p_tail[p]] = CopyPayload(@, p_message[p])]
    /\ p_pc' = [p_pc EXCEPT ![p] = "store_tail"]
    /\ UNCHANGED <<head, tail, p_message, p_next_tail, p_tail, p_ret,
                   consumerLocals, sendCalls, sentOk, rejected, received>>

\* self.tail.store(next_tail, Release); Ok(()) (ipc.rs:102-105)
SendStoreTail(p) ==
    /\ p_pc[p] = "store_tail"
    /\ tail' = NextIndex(p_tail[p])
    /\ p_ret' = [p_ret EXCEPT ![p] = <<"Ok">>]
    /\ sentOk' = Append(sentOk, p_message[p])
    /\ p_pc' = [p_pc EXCEPT ![p] = "idle"]
    /\ UNCHANGED <<messages, head, p_message, p_next_tail, p_tail,
                   consumerLocals, sendCalls, rejected, received>>

Send(p) ==
    \/ SendIsFullLoadTail(p)
    \/ SendIsFullLoadHead(p)
    \/ SendLoadTail(p)
    \/ SendWriteHeader(p)
    \/ SendWritePayload(p)
    \/ SendStoreTail(p)

(***************************************************************************)
(* IpcQueue::receive (ipc.rs:112-133)                                      *)
(***************************************************************************)
\* the call, and is_empty's load of head (ipc.rs:75)
RecvIsEmptyLoadHead ==
    /\ c_pc = "idle"
    /\ c_head' = head
    /\ c_pc' = "is_empty_tail"
    /\ UNCHANGED <<messages, head, tail, producerLocals, c_message, c_ret,
                   sendCalls, sentOk, rejected, received>>

\* is_empty's load of tail and the early return (ipc.rs:75, 115-117)
RecvIsEmptyLoadTail ==
    /\ c_pc = "is_empty_tail"
    /\ IF IsEmptyTest(c_head, tail)
       THEN /\ c_ret' = <<"None">>
            /\ c_pc' = "idle"
       ELSE /\ c_pc' = "load_head"
            /\ UNCHANGED c_ret
    /\ UNCHANGED <<messages, head, tail, producerLocals, c_head, c_message,
                   sendCalls, sentOk, rejected, received>>

\* let head = self.head.load(Acquire) (ipc.rs:119)
RecvLoadHead ==
    /\ c_pc = "load_head"
    /\ c_head' = head
    /\ c_pc' = "read_header"
    /\ UNCHANGED <<messages, head, tail, producerLocals, c_message, c_ret,
                   sendCalls, sentOk, rejected, received>>

\* (*self.messages[head].get()).clone() (ipc.rs:124-126), two separate reads
RecvReadHeader ==
    /\ c_pc = "read_header"
    /\ c_message' = CopyHeader(c_message, messages[c_head])
    /\ c_pc' = "read_payload"
    /\ UNCHANGED <<messages, head, tail, producerLocals, c_head, c_ret,
                   sendCalls, sentOk, rejected, received>>

RecvReadPayload ==
    /\ c_pc = "read_payload"
    /\ c_message' = CopyPayload(c_message, messages[c_head])
    /\ c_pc' = "store_head"
    /\ UNCHANGED <<messages, head, tail, producerLocals, c_head, c_ret,
                   sendCalls, sentOk, rejected, received>>

\* self.head.store(next_head, Release); Some(message) (ipc.rs:128-131)
RecvStoreHead ==
    /\ c_pc = "store_head"
    /\ head' = NextIndex(c_head)
    /\ c_ret' = <<"Some", c_message>>
    /\ received' = Append(received, c_message)
    /\ c_pc' = "idle"
    /\ UNCHANGED <<messages, tail, producerLocals, c_head, c_message,
                   sendCalls, sentOk, rejected>>

Receive ==
    \/ RecvIsEmptyLoadHead
    \/ RecvIsEmptyLoadTail
    \/ RecvLoadHead
    \/ RecvReadHeader
    \/ RecvReadPayload
    \/ RecvStoreHead

(***************************************************************************)
(* TaskStackAllocator (memory.rs:54-125)                                   *)
(***************************************************************************)
\* the contexts that call into the allocator
AllocContexts == {"x", "y"}

\* task ids passed by the callers: the first slots, the last slot, and the
\* first id out of range
TaskIds == {0, 1, 2, MAX_TASKS - 1, MAX_TASKS}

OtherContext(x) == IF x = "x" THEN "y" ELSE "x"

\* static mut GLOBAL_TASK_STACK_ALLOCATOR (memory.rs:64-66)
StackInit ==
    /\ is_allocated = [i \in 0 .. (MAX_TASKS - 1) |-> FALSE]
    /\ a_pc = [x \in AllocContexts |-> "idle"]
    /\ a_task = [x \in AllocContexts |-> 0]
    /\ a_ret = [x \in AllocContexts |-> <<"none">>]
    /\ a_overlap = [x \in AllocContexts |-> FALSE]
    /\ owned = {}

\* usize::checked_add: None when the sum does not fit in a usize
CheckedAdd(a, b) ==
    IF (a + b) \div USIZE_HALF_KIB >= USIZE_HALF_KIB
    THEN <<"None">>
    ELSE <<"Some", a + b>>

\* variant: the slot stride is half a stack
GetStackBaseAddress_HalfStride(task_id) ==
    IF task_id >= MAX_TASKS
    THEN <<"None">>
    ELSE CheckedAdd(TASK_STACKS_VADDR_START, task_id * (TASK_STACK_SIZE \div 2))

\* get_stack_base_address (memory.rs:70-79)
GetStackBaseAddress(task_id) ==
    IF task_id >= MAX_TASKS
    THEN <<"None">>
    ELSE CheckedAdd(TASK_STACKS_VADDR_START, task_id * TASK_STACK_SIZE)

\* the tail of allocate_stack (memory.rs:98-102)
AllocateResult(task_id) ==
    LET base_addr == GetStackBaseAddress(task_id)
    IN  IF base_addr[1] = "None"
        THEN <<"Err", "OutOfMemoryStatic">>
        ELSE <<"Ok", base_addr[2] + TASK_STACK_SIZE>>

\* variant: a set flag does not stop the allocation
AllocSlotBusy_Never(task_id) == FALSE

\* if GLOBAL_TASK_STACK_ALLOCATOR.is_allocated[task_id] (memory.rs:89)
AllocSlotBusy(task_id) == is_allocated[task_id]

\* variant: a clear flag does not stop the release
DeallocSlotFree_Never(task_id) == FALSE

\* if !GLOBAL_TASK_STACK_ALLOCATOR.is_allocated[task_id] (memory.rs:113)
DeallocSlotFree(task_id) == ~is_allocated[task_id]

\* allocate_stack: the range check and the read of the flag (memory.rs:82-91).
\* No lock is taken (memory.rs:59, 87), so another context may run between
\* this read and the write below.
AllocCheck(x) ==
    /\ a_pc[x] = "idle"
    /\ \E task_id \in TaskIds :
         /\ a_task' = [a_task EXCEPT ![x] = task_id]
         /\ IF task_id >= MAX_TASKS
            THEN /\ a_ret' = [a_ret EXCEPT ![x] = <<"Err", "InvalidArgument">>]
                 /\ a_overlap' = [a_overlap EXCEPT ![x] = FALSE]
                 /\ UNCHANGED a_pc
            ELSE IF AllocSlotBusy(task_id)
            THEN /\ a_ret' = [a_ret EXCEPT ![x] = <<"Err", "ResourceBusy">>]
                 /\ a_overlap' = [a_overlap EXCEPT ![x] = FALSE]
                 /\ UNCHANGED a_pc
            ELSE /\ a_pc' = [a_pc EXCEPT ![x] = "alloc_write"]
                 /\ a_ret' = [a_ret EXCEPT ![x] = <<"none">>]
                 /\ a_overlap' =
                      IF a_pc[OtherContext(x)] = "alloc_write"
                         /\ a_task[OtherContext(x)] = task_id
                      THEN [c \in AllocContexts |-> TRUE]
                      ELSE [a_overlap EXCEPT ![x] = FALSE]
    /\ UNCHANGED <<is_allocated, owned>>

\* allocate_stack: the write of the flag and the return (memory.rs:94-102)
AllocWrite(x) ==
    /\ a_pc[x] = "alloc_write"
    /\ is_allocated' = [is_allocated EXCEPT ![a_task[x]] = TRUE]
    /\ a_ret' = [a_ret EXCEPT ![x] = AllocateResult(a_task[x])]
    /\ owned' = IF AllocateResult(a_task[x])[1] = "Ok"
                THEN owned \cup {a_task[x]}
                ELSE owned
    /\ a_pc' = [a_pc EXCEPT ![x] = "idle"]
    /\ UNCHANGED <<a_task, a_overlap>>

\* deallocate_stack: the range check and the read of the flag (memory.rs:106-115)
DeallocCheck(x) ==
    /\ a_pc[x] = "idle"
    /\ \E task_id \in TaskIds :
         /\ a_task' = [a_task EXCEPT ![x] = task_id]
         /\ IF task_id >= MAX_TASKS
            THEN /\ a_ret' = [a_ret EXCEPT ![x] = <<"Err", "InvalidArgument">>]
                 /\ UNCHANGED a_pc
            ELSE IF DeallocSlotFree(task_id)
            THEN /\ a_ret' = [a_ret EXCEPT ![x] = <<"Err", "NotFound">>]
                 /\ UNCHANGED a_pc
            ELSE /\ a_pc' = [a_pc EXCEPT ![x] = "dealloc_write"]
                 /\ a_ret' = [a_ret EXCEPT ![x] = <<"none">>]
    /\ a_overlap' = [a_overlap EXCEPT ![x] = FALSE]
    /\ UNCHANGED <<is_allocated, owned>>

\* deallocate_stack: the write of the flag and the return (memory.rs:118-123)
DeallocWrite(x) ==
    /\ a_pc[x] = "dealloc_write"
    /\ is_allocated' = [is_allocated EXCEPT ![a_task[x]] = FALSE]
    /\ a_ret' = [a_ret EXCEPT ![x] = <<"Ok">>]
    /\ owned' = owned \ {a_task[x]}
    /\ a_pc' = [a_pc EXCEPT ![x] = "idle"]
    /\ UNCHANGED <<a_task, a_overlap>>

(***************************************************************************)
(* spinlock::Spinlock (platformgeneric.rs:72-112)                          *)
(***************************************************************************)
LockContexts == 1 .. NumLockContexts

\* Spinlock::new (platformgeneric.rs:82-86)
LockInit ==
    /\ locked = FALSE
    /\ l_pc = [x \in LockContexts |-> "idle"]
    /\ l_calls = [x \in LockContexts |-> 0]

\* variant: a success is reported without the flag being stored
CompareExchange_NoStore(current, new) == [ok |-> TRUE, value |-> current]

\* variant: a plain swap to true that always counts as a success
CompareExchange_Swap(current, new) == [ok |-> TRUE, value |-> new]

\* AtomicBool::compare_exchange(false, new, ..) in one atomic step:
\* whether it succeeded and the value it left (platformgeneric.rs:93-98)
CompareExchange(current, new) ==
    IF current = FALSE
    THEN [ok |-> TRUE, value |-> new]
    ELSE [ok |-> FALSE, value |-> current]

\* a context calls lock()
LockCall(x) ==
    /\ l_pc[x] = "idle"
    /\ l_calls[x] < MaxLockCalls
    /\ l_calls' = [l_calls EXCEPT ![x] = @ + 1]
    /\ l_pc' = [l_pc EXCEPT ![x] = "lock"]
    /\ UNCHANGED locked

\* one turn of the while loop of lock(): it returns when the compare_exchange
\* succeeded and goes round again when it failed (platformgeneric.rs:91-102)
LockTry(x) ==
    /\ l_pc[x] = "lock"
    /\ LET r == CompareExchange(locked, TRUE)
       IN  /\ locked' = r.value
           /\ l_pc' = [l_pc EXCEPT ![x] = IF r.ok THEN "held" ELSE "lock"]
    /\ UNCHANGED l_calls

\* unlock(), called by the context whose lock() has returned
\* (platformgeneric.rs:108-110)
Unlock(x) ==
    /\ l_pc[x] = "held"
    /\ locked' = FALSE
    /\ l_pc' = [l_pc EXCEPT ![x] = "idle"]
    /\ UNCHANGED l_calls

(***************************************************************************)
(* TaskContext and switch_context                                          *)
(* (arch/amd64/task.rs, arch/armv9/task.rs, arch/rv64i/task.rs)            *)
(*                                                                         *)
(* A TaskContext is [regs, sp, lr, pc]: the callee-saved bank as one value,*)
(* the stack pointer, the saved link register (x30 / ra; none on x86-64)   *)
(* and the saved program counter (rip / pc; none on rv64, whose context    *)
(* has no such field).  Stack pointers are byte offsets from               *)
(* TASK_STACKS_VADDR_START.  Code addresses are <<task, label>>.           *)
(***************************************************************************)
Archs == {"amd64", "armv9", "rv64i"}

\* the boot context and the two tasks
Tasks == {"A", "B"}

Boot == "K"

Entry(t) == <<t, "entry">>

\* the call of switch_context in t's code
SwitchCall(t) == <<t, "switch">>

\* the point after that call
AfterSwitch(t) == <<t, "after_switch">>

\* no code address: a field the backend does not have, or a zeroed one
NoAddress == <<"none", "none">>

\* the stack tops allocate_stack hands out for task ids 0, 1 and 31
StackTops == {(i + 1) * TASK_STACK_BYTES : i \in {0, 1, MAX_TASKS - 1}}

\* the boot stack lies below the task stacks
BootSp == 0 - TASK_STACK_BYTES

\* contents of stack memory nothing has written
JunkBanks == {"junk1", "junk2"}

\* TaskContext::new (amd64/task.rs:43-60, armv9/task.rs:47-63,
\* rv64i/task.rs:39-52)
NewContext(archv, top, entry_point) ==
    IF archv = "amd64"
    THEN [regs |-> "zero", sp |-> top, lr |-> NoAddress, pc |-> entry_point]
    ELSE IF archv = "armv9"
    THEN [regs |-> "zero", sp |-> top, lr |-> entry_point, pc |-> entry_point]
    ELSE [regs |-> "zero", sp |-> top, lr |-> entry_point, pc |-> NoAddress]

\* #[derive(Default)] TaskContext: the save area of the boot context
DefaultContext(archv) ==
    [regs |-> "zero", sp |-> 0, lr |-> NoAddress, pc |-> NoAddress]

\* the boot code is about to switch to task A; the contexts of A and B are fresh
TaskInit ==
    /\ arch \in Archs
    /\ stack_top \in {f \in [Tasks -> StackTops] : f["A"] # f["B"]}
    /\ ctx = [t \in Tasks \cup {Boot} |->
                IF t = Boot THEN DefaultContext(arch)
                ELSE NewContext(arch, stack_top[t], Entry(t))]
    /\ cpu = [pc |-> SwitchCall(Boot), sp |-> BootSp, lr |-> NoAddress, regs |-> Boot]
    /\ mem = [a \in {} |-> "zero"]
    /\ sentinel = [t \in Tasks |-> FALSE]
    /\ fresh = [t \in Tasks |-> TRUE]
    /\ justSwitched = <<>>
    /\ switchLog = <<>>
    /\ sp_before = [t \in Tasks |-> <<>>]

\* the variables while another subsystem is looked at
TaskIdle ==
    /\ arch = "amd64"
    /\ stack_top = [t \in Tasks |-> TASK_STACK_BYTES]
    /\ ctx = [t \in Tasks \cup {Boot} |-> DefaultContext("amd64")]
    /\ cpu = [pc |-> SwitchCall(Boot), sp |-> BootSp, lr |-> NoAddress, regs |-> Boot]
    /\ mem = [a \in {} |-> "zero"]
    /\ sentinel = [t \in Tasks |-> FALSE]
    /\ fresh = [t \in Tasks |-> TRUE]
    /\ justSwitched = <<>>
    /\ switchLog = <<>>
    /\ sp_before = [t \in Tasks |-> <<>>]

\* the six pushes, or pops, move rsp by 48 bytes
PushedBytes == AMD64_PUSHED_REGS * REG_BYTES

\* x86-64 (amd64/task.rs:79-134): push the callee-saved registers on the
\* current stack, store rsp at old + 48, load rsp from new + 48, pop the
\* callee-saved registers from the new stack, jump to the rip at new + 56.
\* Nothing is stored at old + 56.  `junk` is what the pops read where
\* nothing was pushed.
SwitchAmd64(c, cx, m, old, new, junk) ==
    LET sp1 == c.sp - PushedBytes
        m1 == (sp1 :> c.regs) @@ m
        cx1 == [cx EXCEPT ![old].sp = sp1]
        sp2 == cx1[new].sp
        popped == IF sp2 \in DOMAIN m1 THEN m1[sp2] ELSE junk
    IN  [cpu |-> [pc |-> cx1[new].pc, sp |-> sp2 + PushedBytes,
                  lr |-> c.lr, regs |-> popped],
         ctx |-> cx1,
         mem |-> m1]

\* AArch64 (armv9/task.rs:76-135): store x19-x30 and sp into old, store x30
\* into old.pc as well; load sp and x19-x30 from new, branch to new.pc.
SwitchArmv9(c, cx, m, old, new, junk) ==
    LET cx1 == [cx EXCEPT ![old] = [regs |-> c.regs, sp |-> c.sp,
                                    lr |-> c.lr, pc |-> c.lr]]
    IN  [cpu |-> [pc |-> cx1[new].pc, sp |-> cx1[new].sp,
                  lr |-> cx1[new].lr, regs |-> cx1[new].regs],
         ctx |-> cx1,
         mem |-> m]

\* rv64 (rv64i/task.rs:65-121): store s0-s11, ra and sp into old; load sp,
\* s0-s11 and ra from new, jr ra.
SwitchRv64i(c, cx, m, old, new, junk) ==
    LET cx1 == [cx EXCEPT ![old] = [regs |-> c.regs, sp |-> c.sp,
                                    lr |-> c.lr, pc |-> NoAddress]]
    IN  [cpu |-> [pc |-> cx1[new].lr, sp |-> cx1[new].sp,
                  lr |-> cx1[new].lr, regs |-> cx1[new].regs],
         ctx |-> cx1,
         mem |-> m]

\* switch_context of the backend built in
SwitchContextAsm(archv, c, cx, m, old, new, junk) ==
    IF archv = "amd64" THEN SwitchAmd64(c, cx, m, old, new, junk)
    ELSE IF archv = "armv9" THEN SwitchArmv9(c, cx, m, old, new, junk)
    ELSE SwitchRv64i(c, cx, m, old, new, junk)

\* whom the code of t switches to: boot starts A, A and B switch to each other
SwitchTarget(t) == IF t = "A" THEN "B" ELSE "A"

\* what the link register holds when the asm block is entered: the return
\* address of the call of switch_context, as the code assumes
\* (armv9/task.rs:99-101, rv64i/task.rs:49).  x86-64 has no link register.
LinkAtCall(archv, t) ==
    IF archv = "amd64" THEN NoAddress ELSE AfterSwitch(t)

\* the code at pc calls switch_context(&mut ctx[t], &ctx[SwitchTarget(t)])
SwitchContext(t) ==
    /\ cpu.pc = SwitchCall(t)
    /\ Len(switchLog) < MaxSwitches
    /\ \E junk \in JunkBanks :
         LET to == SwitchTarget(t)
             r == SwitchContextAsm(arch, [cpu EXCEPT !.lr = LinkAtCall(arch, t)],
                                   ctx, mem, t, to, junk)
         IN  /\ cpu' = r.cpu
             /\ ctx' = r.ctx
             /\ mem' = r.mem
             /\ justSwitched' = <<t, to, fresh[to]>>
             /\ fresh' = [x \in Tasks |-> fresh[x] /\ x # t]
             /\ switchLog' = Append(switchLog, <<t, to>>)
             /\ sp_before' = IF t \in Tasks /\ sp_before[t] = <<>>
                             THEN [sp_before EXCEPT ![t] = <<cpu.sp>>]
                             ELSE sp_before
    /\ UNCHANGED <<arch, stack_top, sentinel>>

\* the entry of task t runs: it writes its sentinel, uses the callee-saved
\* registers, and comes to its call of switch_context
RunEntry(t) ==
    /\ cpu.pc = Entry(t)
    /\ sentinel' = [sentinel EXCEPT ![t] = TRUE]
    /\ cpu' = [cpu EXCEPT !.pc = SwitchCall(t), !.regs = t]
    /\ justSwitched' = <<>>
    /\ UNCHANGED <<arch, ctx, stack_top, mem, fresh, switchLog, sp_before>>

\* task t goes on after its switch_context call and parks (task_entry's
\* idle loop, task.rs:166-170)
RunAfterSwitch(t) ==
    /\ cpu.pc = AfterSwitch(t)
    /\ cpu' = [cpu EXCEPT !.pc = <<t, "idle">>]
    /\ justSwitched' = <<>>
    /\ UNCHANGED <<arch, ctx, stack_top, mem, sentinel, fresh, switchLog, sp_before>>

(***************************************************************************)
(* Trap handlers (arch/*/exception.rs)                                     *)
(*                                                                         *)
(* A trap saves the interrupted instruction pointer in the                 *)
(* ExceptionContext, the Rust handler runs on it, and the trampoline        *)
(* returns to the saved instruction pointer unless the handler panicked.   *)
(* A handler is an operator from the cause register and the saved          *)
(* instruction pointer to [class, ip, outcome]: the class of the match arm *)
(* taken, the saved instruction pointer it leaves, and whether it returns  *)
(* or panics.                                                              *)
(***************************************************************************)
VARIABLES
    t_arch,       \* the backend the kernel was built for
    t_state,      \* "running" | "handler" | "returned" | "panicked"
    t_pc,         \* the instruction pointer of the interrupted code
    t_cause,      \* the cause register (or vector) of the trap being handled
    t_ctx_ip,     \* ExceptionContext's saved instruction pointer
    t_ip0,        \* the saved instruction pointer when the handler was entered
    t_class,      \* the class of the match arm the handler took
    t_traps       \* number of traps taken

trapVars == <<t_arch, t_state, t_pc, t_cause, t_ctx_ip, t_ip0, t_class, t_traps>>

TrapArchs == {"rv64i", "loongarch64", "armv9", "mips64", "amd64"}

RiscArchs == TrapArchs \ {"amd64"}

TrapHandled(class, ip) == [class |-> class, ip |-> ip, outcome |-> "return"]

TrapPanic(class, ip) == [class |-> class, ip |-> ip, outcome |-> "panic"]

\* ---- rv64i.  SCAUSE is [interrupt, code]: bit 63 and the low 63 bits.
\* ExceptionCause::from_scause (rv64i/exception.rs:57-76)
FromScause(scause) ==
    IF scause.interrupt
    THEN CASE scause.code = 1 -> "SupervisorSoftwareInterrupt"
           [] scause.code = 5 -> "SupervisorTimerInterrupt"
           [] scause.code = 9 -> "SupervisorExternalInterrupt"
           [] OTHER -> "_Unknown"
    ELSE CASE scause.code = 12 -> "InstructionPageFault"
           [] scause.code = 13 -> "LoadPageFault"
           [] scause.code = 15 -> "StorePageFault"
           [] scause.code = 8 -> "EnvironmentCallFromUMode"
           [] scause.code = 9 -> "EnvironmentCallFromSMode"
           [] scause.code = 1 -> "InstructionAccessFault"
           [] OTHER -> "_Unknown"

\* generic_trap_handler (rv64i/exception.rs:85-123)
GenericTrapHandlerRv64i(scause, sepc) ==
    LET cause == FromScause(scause)
    IN  IF cause \in {"SupervisorSoftwareInterrupt", "SupervisorTimerInterrupt",
                      "SupervisorExternalInterrupt"}
        THEN TrapHandled("interrupt", sepc)
        ELSE IF cause \in {"LoadPageFault", "StorePageFault", "InstructionPageFault"}
        THEN TrapPanic("page_fault", sepc)
        ELSE IF cause \in {"EnvironmentCallFromUMode", "EnvironmentCallFromSMode"}
        THEN TrapHandled("syscall", sepc + INSTR_BYTES)
        ELSE TrapPanic(IF cause = "_Unknown" THEN "unknown" ELSE "other", sepc)

\* ---- loongarch64
\* impl From<u64> for ExceptionCause (loongarch64/exception.rs:63-81)
FromLoongarch64(val) ==
    LET code == val % 32
    IN  CASE code = 0 -> "Int"
          [] code = 1 -> "TlbRefill"
          [] code = 2 -> "TlbInvalid"
          [] code = 3 -> "TlbModified"
          [] code = 4 -> "LoadPageFault"
          [] code = 5 -> "StorePageFault"
          [] code = 6 -> "InstPageFault"
          [] code = 7 -> "AddrInvalid"
          [] code = 11 -> "Syscall"
          [] code = 12 -> "Breakpoint"
          [] code = 14 -> "InstrInvalid"
          [] code = 18 -> "FpDisabled"
          [] OTHER -> "_Unknown"

\* generic_exception_handler (loongarch64/exception.rs:89-122); the line
\* that advances csr_era is commented out (line 110)
GenericExceptionHandlerLoongarch64(csr_cause, csr_era) ==
    LET cause_code == (csr_cause \div 4) % 32
        cause == FromLoongarch64(cause_code)
    IN  IF cause = "Int"
        THEN TrapHandled("interrupt", csr_era)
        ELSE IF cause \in {"InstPageFault", "LoadPageFault", "StorePageFault"}
        THEN TrapPanic("page_fault", csr_era)
        ELSE IF cause = "Syscall"
        THEN TrapHandled("syscall", csr_era)
        ELSE TrapPanic(IF cause = "InstrInvalid" THEN "illegal"
                       ELSE IF cause = "_Unknown" THEN "unknown" ELSE "other",
                       csr_era)

\* ---- armv9.  The cause is <<vector, esr_el1>>: the IRQ vectors enter
\* generic_irq_handler, the synchronous ones generic_sync_handler with
\* ESR_EL1.  ESR_EL1 is counted in units of 2^26 (its bits 26 and up), so
\* (esr_el1 >> 26) & 0x3F is esr_el1 % 64.
\* generic_sync_handler (armv9/exception.rs:107-124)
GenericSyncHandlerArmv9(esr_el1, elr_el1) ==
    LET ec == esr_el1 % 64
    IN  TrapPanic(IF ec \in {32, 33} THEN "page_fault"
                  ELSE IF ec = 21 THEN "syscall" ELSE "unknown",
                  elr_el1)

\* generic_irq_handler (armv9/exception.rs:131-143)
GenericIrqHandlerArmv9(elr_el1) == TrapHandled("interrupt", elr_el1)

\* the vector table (armv9/exception.rs:60-81)
VectorTableArmv9(cause, elr_el1) ==
    IF cause[1] = "irq" THEN GenericIrqHandlerArmv9(elr_el1)
    ELSE GenericSyncHandlerArmv9(cause[2], elr_el1)

\* ---- mips64
\* impl From<u64> for ExceptionCause (mips64/exception.rs:56-73)
FromMips64(val) ==
    LET code == (val \div 4) % 32
    IN  CASE code = 0 -> "Int"
          [] code = 1 -> "TLB_Mod"
          [] code = 2 -> "TLB_Load"
          [] code = 3 -> "TLB_Store"
          [] code = 4 -> "Addr_Load"
          [] code = 5 -> "Addr_Store"
          [] code = 6 -> "Bus_Instr"
          [] code = 7 -> "Bus_Data"
          [] code = 8 -> "Syscall"
          [] code = 9 -> "Breakpoint"
          [] OTHER -> "_Unknown"

\* a handler that takes the TLB arm for a retry instead of a panic
GenericExceptionHandlerMips64_TlbRetry(cp0_cause, cp0_epc) ==
    LET cause == FromMips64(cp0_cause)
    IN  IF cause = "Int"
        THEN TrapHandled("interrupt", cp0_epc)
        ELSE IF cause \in {"TLB_Load", "TLB_Store", "TLB_Mod"}
        THEN TrapHandled("page_fault", cp0_epc)
        ELSE IF cause = "Syscall"
        THEN TrapHandled("syscall", cp0_epc + INSTR_BYTES)
        ELSE TrapPanic(IF cause = "_Unknown" THEN "unknown" ELSE "other", cp0_epc)

\* generic_exception_handler (mips64/exception.rs:81-119)
GenericExceptionHandlerMips64(cp0_cause, cp0_epc) ==
    LET cause == FromMips64(cp0_cause)
    IN  IF cause = "Int"
        THEN TrapHandled("interrupt", cp0_epc)
        ELSE IF cause \in {"TLB_Load", "TLB_Store", "TLB_Mod"}
        THEN TrapPanic("page_fault", cp0_epc)
        ELSE IF cause = "Syscall"
        THEN TrapHandled("syscall", cp0_epc + INSTR_BYTES)
        ELSE TrapPanic(IF cause = "_Unknown" THEN "unknown" ELSE "other", cp0_epc)

\* ---- amd64
\* generic_exception_handler (amd64/exception.rs:147-155)
GenericExceptionHandlerAmd64(vector, instruction_pointer) ==
    TrapPanic(IF vector = 6 THEN "illegal" ELSE "other", instruction_pointer)

\* generic_exception_handler_with_error (amd64/exception.rs:159-175)
GenericExceptionHandlerWithErrorAmd64(vector, instruction_pointer) ==
    TrapPanic(IF vector = 14 THEN "page_fault" ELSE "other", instruction_pointer)

\* generic_interrupt_handler (amd64/exception.rs:179-199)
GenericInterruptHandlerAmd64(vector, instruction_pointer) ==
    TrapHandled("interrupt", instruction_pointer)

\* Idt::init (amd64/exception.rs:101-120): vectors 0 and 6 go to the stubs
\* without an error code, 8, 13 and 14 to the stubs with one, 32 and 33 to
\* the interrupt stubs
IdtAmd64(vector, instruction_pointer) ==
    IF vector \in {0, 6}
    THEN GenericExceptionHandlerAmd64(vector, instruction_pointer)
    ELSE IF vector \in {8, 13, 14}
    THEN GenericExceptionHandlerWithErrorAmd64(vector, instruction_pointer)
    ELSE GenericInterruptHandlerAmd64(vector, instruction_pointer)

\* ---- sparcv9.  The cause is [vector, trap_id]: the offset of the vector
\* entered in the trap table and the trap_id its stub hands to the handler.
\* generic_trap_handler (sparcv9/exception.rs:67-113); tnpc is the
\* instruction after tpc
GenericTrapHandlerSparcv9(trap_id, tpc) ==
    LET trap_offset == trap_id * 64
        tnpc == tpc + INSTR_BYTES
        cause == CASE trap_offset = 0 -> "Reset"
                   [] trap_offset = 64 -> "InstructionAccessException"
                   [] trap_offset = 128 -> "DataAccessException"
                   [] trap_offset = 256 -> "Interrupt"
                   [] trap_offset = 96 -> "Syscall"
                   [] OTHER -> "_Unknown"
    IN  IF cause = "Interrupt"
        THEN TrapHandled("interrupt", tpc)
        ELSE IF cause \in {"InstructionAccessException", "DataAccessException"}
        THEN TrapPanic("page_fault", tpc)
        ELSE IF cause = "Syscall"
        THEN TrapHandled("syscall", tnpc)
        ELSE TrapPanic(IF cause = "_Unknown" THEN "unknown" ELSE "other", tpc)

\* the trap types of SPARC V9 are 9 bits wide
SparcTrapIds == 0..511

\* the vectors declared (sparcv9/exception.rs:10-21); the stubs are
\* assembly outside the repository: a stub hands over the trap_id whose
\* offset trap_id * 0x40 is its vector, and where no trap_id has that
\* offset, any trap_id
SparcVectors == {0, 64, 96, 128, 256}

SparcTrapIdsOf(vector) ==
    IF \E id \in SparcTrapIds : id * 64 = vector
    THEN {id \in SparcTrapIds : id * 64 = vector}
    ELSE {0, 1, 2, 3, 4, 5, 16, 32, 40, 96, 256, 511}

\* the handler of the backend built in
TrapHandler(archv, cause, ip) ==
    CASE archv = "rv64i" -> GenericTrapHandlerRv64i(cause, ip)
      [] archv = "loongarch64" -> GenericExceptionHandlerLoongarch64(cause, ip)
      [] archv = "armv9" -> VectorTableArmv9(cause, ip)
      [] archv = "mips64" -> GenericExceptionHandlerMips64(cause, ip)
      [] archv = "amd64" -> IdtAmd64(cause, ip)
      [] archv = "sparcv9" -> GenericTrapHandlerSparcv9(cause.trap_id, ip)

\* the cause values a trap can deliver: every code the handler names, one it
\* does not name, and values with bits set outside the code field
TrapCauses(archv) ==
    CASE archv = "rv64i" ->
            {[interrupt |-> FALSE, code |-> c] : c \in {1, 2, 8, 9, 12, 13, 15}}
            \cup {[interrupt |-> TRUE, code |-> c] : c \in {1, 5, 9, 12}}
      [] archv = "loongarch64" ->
            {4 * c + low : c \in {0, 4, 5, 6, 7, 11, 14, 31}, low \in {0, 3}}
      [] archv = "armv9" ->
            {<<"irq", 0>>} \cup {<<"sync", e>> : e \in {32, 33, 21, 0, 64 + 21}}
      [] archv = "mips64" ->
            {4 * c + low : c \in {0, 1, 2, 3, 4, 8, 9, 10}, low \in {0, 1024}}
      [] archv = "amd64" -> {0, 6, 8, 13, 14, 32, 33}
      [] archv = "sparcv9" ->
            UNION {{[vector |-> v, trap_id |-> id] : id \in SparcTrapIdsOf(v)} :
                     v \in SparcVectors}

\* where the interrupted code can be
TrapPcs == {4096, 4100}

TrapInit ==
    /\ t_arch \in TrapArchs
    /\ t_state = "running"
    /\ t_pc \in TrapPcs
    /\ t_cause = 0
    /\ t_ctx_ip = 0
    /\ t_ip0 = 0
    /\ t_class = "none"
    /\ t_traps = 0

\* the same for the SPARC V9 backend
SparcTrapInit ==
    /\ t_arch = "sparcv9"
    /\ t_state = "running"
    /\ t_pc \in TrapPcs
    /\ t_cause = 0
    /\ t_ctx_ip = 0
    /\ t_ip0 = 0
    /\ t_class = "none"
    /\ t_traps = 0

\* the variables while another subsystem is looked at
TrapIdle ==
    /\ t_arch = "rv64i"
    /\ t_state = "running"
    /\ t_pc = 4096
    /\ t_cause = 0
    /\ t_ctx_ip = 0
    /\ t_ip0 = 0
    /\ t_class = "none"
    /\ t_traps = 0

\* the CPU takes a trap: the trampoline saves the instruction pointer in the
\* ExceptionContext and calls the handler
TakeTrap ==
    /\ t_state = "running"
    /\ t_traps < MaxTraps
    /\ t_cause' \in TrapCauses(t_arch)
    /\ t_ctx_ip' = t_pc
    /\ t_ip0' = t_pc
    /\ t_class' = "none"
    /\ t_state' = "handler"
    /\ t_traps' = t_traps + 1
    /\ UNCHANGED <<t_arch, t_pc>>

\* the Rust handler of backend archv runs to its end or to its panic!
RunTrapHandler(archv) ==
    /\ t_state = "handler"
    /\ t_arch = archv
    /\ LET r == TrapHandler(archv, t_cause, t_ctx_ip)
       IN  /\ t_class' = r.class
           /\ t_ctx_ip' = r.ip
           /\ t_state' = IF r.outcome = "panic" THEN "panicked" ELSE "returned"
    /\ UNCHANGED <<t_arch, t_pc, t_cause, t_ip0, t_traps>>

\* the trampoline restores the context and returns to the saved instruction
\* pointer
TrapReturn ==
    /\ t_state = "returned"
    /\ t_pc' = t_ctx_ip
    /\ t_state' = "running"
    /\ UNCHANGED <<t_arch, t_cause, t_ctx_ip, t_ip0, t_class, t_traps>>

(***************************************************************************)
(* The panic routine (arch/*/panic.rs)                                     *)
(*                                                                         *)
(* panic prints four groups of lines with serial_println!, then halt_loop  *)
(* prints one line and executes the idle instruction forever.  The         *)
(* interrupt-enable flag of the CPU (IF / SSTATUS.SIE) is whatever the     *)
(* panicking code left: trap entry clears it in hardware, cli /            *)
(* disable_interrupts clear it, sti / enable_interrupts set it.            *)
(***************************************************************************)
VARIABLES
    pn_arch,      \* the backend the kernel was built for
    pn_pc,        \* "kernel", or the position in panic / halt_loop
    pn_ie,        \* the CPU's interrupt-enable flag
    pn_in_irq,    \* an interrupt handler is running
    pn_irqs,      \* number of interrupts taken
    pn_irqs_in_panic, \* number of them taken since panic was entered
    pn_lines      \* what panic has written to the console

panicVars == <<pn_arch, pn_pc, pn_ie, pn_in_irq, pn_irqs, pn_irqs_in_panic, pn_lines>>

PanicArchs == {"amd64", "rv64i"}

\* the idle instruction of halt_loop (amd64/panic.rs:18, rv64i/panic.rs:20)
IdleInstruction(archv) == IF archv = "amd64" THEN "hlt" ELSE "wfi"

PanicInit ==
    /\ pn_arch \in PanicArchs
    /\ pn_pc = "kernel"
    /\ pn_ie \in BOOLEAN
    /\ pn_in_irq = FALSE
    /\ pn_irqs = 0
    /\ pn_irqs_in_panic = 0
    /\ pn_lines = <<>>

\* the variables while another subsystem is looked at
PanicIdle ==
    /\ pn_arch = "amd64"
    /\ pn_pc = "kernel"
    /\ pn_ie = FALSE
    /\ pn_in_irq = FALSE
    /\ pn_irqs = 0
    /\ pn_irqs_in_panic = 0
    /\ pn_lines = <<>>

\* sti (amd64/platformmod.rs:58-61), enable_interrupts
\* (rv64i/platformmod.rs:108-114)
EnableInterrupts ==
    /\ pn_pc = "kernel"
    /\ ~pn_in_irq
    /\ ~pn_ie
    /\ pn_ie' = TRUE
    /\ UNCHANGED <<pn_arch, pn_pc, pn_in_irq, pn_irqs, pn_irqs_in_panic, pn_lines>>

\* cli (amd64/platformmod.rs:51-54), disable_interrupts
\* (rv64i/platformmod.rs:97-104)
DisableInterrupts ==
    /\ pn_pc = "kernel"
    /\ ~pn_in_irq
    /\ pn_ie
    /\ pn_ie' = FALSE
    /\ UNCHANGED <<pn_arch, pn_pc, pn_in_irq, pn_irqs, pn_irqs_in_panic, pn_lines>>

\* a device interrupt is delivered: the CPU clears the interrupt-enable flag
\* and enters the interrupt handler
IrqEnter ==
    /\ pn_ie
    /\ ~pn_in_irq
    /\ pn_irqs < MaxIrqs
    /\ pn_in_irq' = TRUE
    /\ pn_ie' = FALSE
    /\ pn_irqs' = pn_irqs + 1
    /\ pn_irqs_in_panic' = IF pn_pc = "kernel" THEN pn_irqs_in_panic
                           ELSE pn_irqs_in_panic + 1
    /\ UNCHANGED <<pn_arch, pn_pc, pn_lines>>

\* the interrupt handler returns: the interrupted code goes on with the
\* flag it had
IrqReturn ==
    /\ pn_in_irq
    /\ pn_in_irq' = FALSE
    /\ pn_ie' = TRUE
    /\ UNCHANGED <<pn_arch, pn_pc, pn_irqs, pn_irqs_in_panic, pn_lines>>

\* panic! in kernel code outside the trap handlers (for instance the
\* .expect of map_page, rv64i/mmu.rs:122): the flag stays as it is
PanicFromKernel ==
    /\ pn_pc = "kernel"
    /\ ~pn_in_irq
    /\ pn_pc' = "banner"
    /\ UNCHANGED <<pn_arch, pn_ie, pn_in_irq, pn_irqs, pn_irqs_in_panic, pn_lines>>

\* panic! in a trap handler (rv64i/exception.rs:105, amd64/exception.rs:174):
\* trap entry has cleared the flag
PanicFromTrap ==
    /\ pn_pc = "kernel"
    /\ ~pn_in_irq
    /\ pn_pc' = "banner"
    /\ pn_ie' = FALSE
    /\ UNCHANGED <<pn_arch, pn_in_irq, pn_irqs, pn_irqs_in_panic, pn_lines>>

\* the order of panic's output (amd64/panic.rs:30-53, rv64i/panic.rs:33-59)
PanicAfter(pc) ==
    CASE pc = "banner" -> "location"
      [] pc = "location" -> "message"
      [] pc = "message" -> "footer"
      [] pc = "footer" -> "halt_msg"
      [] pc = "halt_msg" -> "halt"

\* one serial_println! group of panic, or halt_loop's first line
PanicPrint ==
    /\ pn_pc \in {"banner", "location", "message", "footer", "halt_msg"}
    /\ ~pn_in_irq
    /\ pn_lines' = Append(pn_lines, pn_pc)
    /\ pn_pc' = PanicAfter(pn_pc)
    /\ UNCHANGED <<pn_arch, pn_ie, pn_in_irq, pn_irqs, pn_irqs_in_panic>>

\* halt_loop's loop (amd64/panic.rs:14-20, rv64i/panic.rs:15-24): the idle
\* instruction waits for an interrupt, and the loop executes it again
HaltLoop ==
    /\ pn_pc = "halt"
    /\ ~pn_in_irq
    /\ IdleInstruction(pn_arch) \in {"hlt", "wfi"}
    /\ UNCHANGED panicVars

(***************************************************************************)
(* Page tables (arch/amd64/mmu.rs, arch/rv64i/mmu.rs, arch/armv9/mmu.rs)   *)
(*                                                                         *)
(* A virtual address is [top, low]: its bits 63..39 and its bits 38..0     *)
(* (every virtual address used here has low below 2^31).  Physical         *)
(* addresses are byte addresses below 2^31.  A PageTableEntry is           *)
(* [ppn, flags]: the page-frame bits of the u64 and the set of flag bits   *)
(* set in it; the addresses put into entries are page aligned, so          *)
(* `addr | flags` keeps the two apart.  Physical memory is a function from *)
(* page frames to tables of 512 entries; a frame the kernel has not        *)
(* written reads as m_fill in every entry.                                 *)
(***************************************************************************)
VARIABLES
    m_arch,       \* the backend the kernel was built for
    m_base,       \* where the linker put the static tables
    m_fill,       \* what RAM the kernel has not written holds
    m_mem,        \* [page frame -> the PageTable in it]
    m_phase,      \* "map" | "setup" | "enable" | "done"
    m_next,       \* the loop variable addr of the identity-mapping loop
    m_mapped,     \* the map_page calls made: <<va, pa, flags>> in order
    m_root_reg,   \* [root-pointer register -> <<address>>, <<>> if unwritten]
    m_tlb_stale,  \* the TLB may hold translations older than the root
    m_pipe_stale, \* instructions fetched before the last translation change
                  \* may still be in the pipeline
    m_log         \* the privileged instructions enable_paging has executed

pageVars == <<m_arch, m_base, m_fill, m_mem, m_phase, m_next, m_mapped,
              m_root_reg, m_tlb_stale, m_pipe_stale, m_log>>

PageTableArchs == {"amd64", "rv64i", "armv9"}

VAddr(top, low) == [top |-> top, low |-> low]

\* armv9/mmu.rs:18  KERNEL_START_VADDR = 0xFFFF_8000_0000_0000: bits 63..47 set
KERNEL_START_VADDR == VAddr(KERNEL_START_TOP, 0)

ZeroEntry == [ppn |-> 0, flags |-> {}]

\* PageTable::zero (amd64/mmu.rs:76-80)
\* a table is held as [rest, at]: entries[i] is at[i] for the indexes in
\* DOMAIN at and rest for every other index below TABLE_ENTRY_COUNT
FilledTable(e) == [rest |-> e, at |-> [i \in {} |-> e]]

ZeroTable == FilledTable(ZeroEntry)

\* an entry left in RAM by whoever used it before: every low flag bit set
JunkEntry == [ppn |-> 3, flags |-> {"PRESENT", "VALID", "TABLE_OR_BLOCK", "WRITABLE"}]

\* static mut PML4_TABLE / L1_TABLE (amd64/mmu.rs:194, rv64i/mmu.rs:178,
\* armv9/mmu.rs:198)
RootTableAddr(base) == base

\* static mut PAGE_TABLE_MOCK (amd64/mmu.rs:111, rv64i/mmu.rs:101,
\* armv9/mmu.rs:118)
PageTableMockAddr(base) == base + PAGE_SIZE

Frame(addr) == addr \div PAGE_SIZE

\* the table in the page at addr; RAM nothing has written holds m_fill
TableAt(m, addr) ==
    IF Frame(addr) \in DOMAIN m THEN m[Frame(addr)] ELSE FilledTable(m_fill)

\* a load of entries[i] of the table at addr
ReadEntry(m, addr, i) ==
    LET page == TableAt(m, addr)
    IN  IF i \in DOMAIN page.at THEN page.at[i] ELSE page.rest

\* a store to entries[i] of the table at addr
WriteEntry(m, addr, i, e) ==
    LET page == TableAt(m, addr)
        keep == IF e = page.rest THEN DOMAIN page.at \ {i}
                ELSE DOMAIN page.at \cup {i}
    IN  (Frame(addr) :> [rest |-> page.rest,
                         at |-> [k \in keep |-> IF k = i THEN e ELSE page.at[k]]])
        @@ m

\* alloc_page_table (amd64/mmu.rs:108-119, rv64i/mmu.rs:99-108,
\* armv9/mmu.rs:116-126): every call zeroes and returns the one static
\* PAGE_TABLE_MOCK
AllocPageTable(m, base) ==
    [mem |-> (Frame(PageTableMockAddr(base)) :> ZeroTable) @@ m,
     addr |-> PageTableMockAddr(base)]

\* is_present (amd64/mmu.rs:53-55), is_valid (rv64i/mmu.rs:57-59),
\* is_present (armv9/mmu.rs:64-68)
IsPresent(archv, e) ==
    CASE archv = "amd64" -> "PRESENT" \in e.flags
      [] archv = "rv64i" -> "VALID" \in e.flags
      [] archv = "armv9" -> e.flags \cap {"PRESENT", "TABLE_OR_BLOCK"} # {}

\* addr (amd64/mmu.rs:58-61), (e & PPN_MASK) << 2 (rv64i/mmu.rs:124),
\* e & 0x0000_FFFF_FFFF_F000 (armv9/mmu.rs:146)
EntryAddr(e) == e.ppn * PAGE_SIZE

\* the entry map_page writes for a next-level table (amd64/mmu.rs:144,
\* rv64i/mmu.rs:62-70, armv9/mmu.rs:71-77)
NewTable(archv, addr) ==
    [ppn |-> Frame(addr),
     flags |-> CASE archv = "amd64" -> {"PRESENT", "WRITABLE"}
                 [] archv = "rv64i" -> {"VALID"}
                 [] archv = "armv9" -> {"PRESENT", "TABLE_OR_BLOCK"}]

\* the entry map_page writes for the page (amd64/mmu.rs:64-67, 178,
\* rv64i/mmu.rs:73-78, armv9/mmu.rs:80-86)
NewPage(archv, addr, flags) ==
    [ppn |-> Frame(addr),
     flags |-> CASE archv = "amd64" -> flags
                 [] archv = "rv64i" -> flags \cup {"VALID"}
                 [] archv = "armv9" -> flags \cup {"TABLE_OR_BLOCK", "PRESENT"}]

\* get_indices (amd64/mmu.rs:93-103, armv9/mmu.rs:95-111: bits 47..39,
\* 38..30, 29..21, 20..12; rv64i/mmu.rs:87-96: bits 38..30, 29..21, 20..12)
GetIndices(archv, va) ==
    LET i39 == va.top % TABLE_ENTRY_COUNT
        i30 == (va.low \div 1073741824) % TABLE_ENTRY_COUNT
        i21 == (va.low \div 2097152) % TABLE_ENTRY_COUNT
        i12 == (va.low \div PAGE_SIZE) % TABLE_ENTRY_COUNT
    IN  IF archv = "rv64i" THEN <<i30, i21, i12>> ELSE <<i39, i30, i21, i12>>

\* one "get or create" block of map_page (amd64/mmu.rs:138-146,
\* rv64i/mmu.rs:122-130, armv9/mmu.rs:144-152): the present bit of the
\* entry is tested first; if it is clear the table is allocated and then
\* the entry is stored
GetOrCreate(archv, m, base, table_addr, i) ==
    LET e == ReadEntry(m, table_addr, i)
    IN  IF IsPresent(archv, e)
        THEN [mem |-> m, addr |-> EntryAddr(e)]
        ELSE LET a == AllocPageTable(m, base)
             IN  [mem |-> WriteEntry(a.mem, table_addr, i, NewTable(archv, a.addr)),
                  addr |-> a.addr]

\* map_page (amd64/mmu.rs:127-179)
MapPageAmd64(m, base, pml4_addr, virtual_addr, physical_addr, flags) ==
    LET ix == GetIndices("amd64", virtual_addr)
        pdpt == GetOrCreate("amd64", m, base, pml4_addr, ix[1])
        pd == GetOrCreate("amd64", pdpt.mem, base, pdpt.addr, ix[2])
        pt == GetOrCreate("amd64", pd.mem, base, pd.addr, ix[3])
    IN  WriteEntry(pt.mem, pt.addr, ix[4], NewPage("amd64", physical_addr, flags))

\* map_page (rv64i/mmu.rs:112-152)
MapPageRv64i(m, base, root_table_addr, virtual_addr, physical_addr, flags) ==
    LET ix == GetIndices("rv64i", virtual_addr)
        l2 == GetOrCreate("rv64i", m, base, root_table_addr, ix[1])
        l3 == GetOrCreate("rv64i", l2.mem, base, l2.addr, ix[2])
    IN  WriteEntry(l3.mem, l3.addr, ix[3], NewPage("rv64i", physical_addr, flags))

\* map_page (armv9/mmu.rs:133-188)
MapPageArmv9(m, base, root_table_addr, virtual_addr, physical_addr, flags) ==
    LET ix == GetIndices("armv9", virtual_addr)
        l2 == GetOrCreate("armv9", m, base, root_table_addr, ix[1])
        l3 == GetOrCreate("armv9", l2.mem, base, l2.addr, ix[2])
        l4 == GetOrCreate("armv9", l3.mem, base, l3.addr, ix[3])
    IN  WriteEntry(l4.mem, l4.addr, ix[4], NewPage("armv9", physical_addr, flags))

\* map_page of the backend built in
MapPage(archv, m, base, root, va, pa, flags) ==
    CASE archv = "amd64" -> MapPageAmd64(m, base, root, va, pa, flags)
      [] archv = "rv64i" -> MapPageRv64i(m, base, root, va, pa, flags)
      [] archv = "armv9" -> MapPageArmv9(m, base, root, va, pa, flags)

\* the table walk from the table at table_addr: the entries read, level by
\* level, up to the first entry that is not present or to the last level
RECURSIVE WalkPath(_, _, _, _)
WalkPath(archv, m, table_addr, ix) ==
    LET e == ReadEntry(m, table_addr, ix[1])
    IN  IF Len(ix) = 1 \/ ~IsPresent(archv, e)
        THEN <<e>>
        ELSE <<e>> \o WalkPath(archv, m, EntryAddr(e), Tail(ix))

\* the walk for va from root
Walk(archv, m, root, va) == WalkPath(archv, m, root, GetIndices(archv, va))

\* the walk reached the last level and found a present entry there
WalkEndsAtLeaf(archv, path) ==
    /\ Len(path) = (IF archv = "rv64i" THEN 3 ELSE 4)
    /\ IsPresent(archv, path[Len(path)])

\* <<the physical address va translates to>>, <<>> if the walk faults
Translate(archv, m, root, va) ==
    LET path == Walk(archv, m, root, va)
    IN  IF WalkEndsAtLeaf(archv, path)
        THEN <<EntryAddr(path[Len(path)]) + (va.low % PAGE_SIZE)>>
        ELSE <<>>

\* the flags a caller passes (amd64/mmu.rs:201-203, rv64i/mmu.rs:187-192,
\* armv9/mmu.rs:203-207: AP_RW_KERN_ONLY and ATTR_IDX_NORM_RW are 0, no bit)
KernelFlags(archv) ==
    CASE archv = "amd64" -> {"PRESENT", "WRITABLE", "NO_EXEC"}
      [] archv = "rv64i" -> {"READ", "WRITE", "EXEC", "GLOBAL", "ACCESSED", "DIRTY"}
      [] archv = "armv9" -> {"PRESENT", "SH_INNER", "AF_ACCESSED"}

\* flags of a read-only mapping
ReadOnlyFlags(archv) ==
    CASE archv = "amd64" -> {"PRESENT", "NO_EXEC"}
      [] archv = "rv64i" -> {"READ", "ACCESSED"}
      [] archv = "armv9" -> {"PRESENT", "AF_ACCESSED"}

\* where the linker can have put the kernel's static tables: inside the
\* low 16 MiB (1 MiB) or above them (64 MiB)
ImageBases == {1048576, 67108864}

\* the state before init_mmu or the first map_page: the statics are zero
PageInitCommon ==
    /\ m_base \in ImageBases
    /\ m_fill \in {ZeroEntry, JunkEntry}
    /\ m_mem = (Frame(RootTableAddr(m_base)) :> ZeroTable)
               @@ (Frame(PageTableMockAddr(m_base)) :> ZeroTable)
    /\ m_next = 0
    /\ m_mapped = <<>>
    /\ m_root_reg = [r \in {"cr3", "satp", "ttbr0_el1", "ttbr1_el1"} |-> <<>>]
    /\ m_tlb_stale = FALSE
    /\ m_pipe_stale = FALSE
    /\ m_log = <<>>

\* a kernel about to make map_page calls on a zeroed root
MapInit ==
    /\ m_arch \in PageTableArchs
    /\ m_phase = "map"
    /\ PageInitCommon

\* the variables while another subsystem is looked at
PageIdle ==
    /\ m_arch = "amd64"
    /\ m_phase = "map"
    /\ m_base = 1048576
    /\ m_fill = ZeroEntry
    /\ m_mem = (Frame(RootTableAddr(m_base)) :> ZeroTable)
               @@ (Frame(PageTableMockAddr(m_base)) :> ZeroTable)
    /\ m_next = 0
    /\ m_mapped = <<>>
    /\ m_root_reg = [r \in {"cr3", "satp", "ttbr0_el1", "ttbr1_el1"} |-> <<>>]
    /\ m_tlb_stale = FALSE
    /\ m_pipe_stale = FALSE
    /\ m_log = <<>>

\* the virtual pages the calls map: pages that share all, some or none of
\* their upper-level indices
MapVAddrs ==
    {VAddr(0, 0), VAddr(0, PAGE_SIZE), VAddr(0, 2 * PAGE_SIZE),
     VAddr(0, 2097152), VAddr(0, 1073741824 + PAGE_SIZE)}

\* the physical pages they are mapped to
MapPAddrs == {5 * PAGE_SIZE, 6 * PAGE_SIZE}

MappedVAddrs == {m_mapped[k][1] : k \in 1 .. Len(m_mapped)}

\* a call map_page(root, va, pa, flags) on a virtual page not mapped before
MapPageCall(va, pa, flags) ==
    /\ m_phase = "map"
    /\ Len(m_mapped) < MaxMaps
    /\ va \notin MappedVAddrs
    /\ m_mem' = MapPage(m_arch, m_mem, m_base, RootTableAddr(m_base), va, pa, flags)
    /\ m_mapped' = Append(m_mapped, <<va, pa, flags>>)
    /\ UNCHANGED <<m_arch, m_base, m_fill, m_phase, m_next, m_root_reg,
                   m_tlb_stale, m_pipe_stale, m_log>>

(***************************************************************************)
(* The MIPS-64 TLB (arch/mips64/mmu.rs)                                    *)
(*                                                                         *)
(* The TLB has TLB_ENTRIES entries [hi, lo0, lo1, mask]; an EntryLo is     *)
(* [pfn, flags], an EntryHi the virtual address of the 8 KiB pair.  tlbwi  *)
(* writes the CP0 registers into the entry CP0 Index names, tlbwr into     *)
(* the entry CP0 Random names, a register the hardware keeps changing.     *)
(***************************************************************************)
VARIABLES
    tlb,          \* [0 .. TLB_ENTRIES-1 -> TLB entry]
    cp0,          \* [index, entry_hi, entry_lo0, entry_lo1, page_mask]
    tlb_req,      \* the map_tlb_entry calls made:
                  \* <<tlb_index, virtual_addr, phys_low, phys_high, flags>>
    tlb_idx       \* the loop variable tlb_idx of enable_paging

tlbVars == <<tlb, cp0, tlb_req, tlb_idx>>

\* an EntryLo register value: (phys >> 6) | flags (mips64/mmu.rs:128, 132)
EntryLo(phys_addr, flags) == [pfn |-> phys_addr \div PAGE_SIZE, flags |-> flags]

\* an EntryLo of 0 (mips64/mmu.rs:88-89)
ZeroEntryLo == [pfn |-> 0, flags |-> {}]

\* virtual_addr & 0xFFFF_FFFF_FFFF_E000 (mips64/mmu.rs:121)
EntryHi(virtual_addr) == virtual_addr - (virtual_addr % (2 * PAGE_SIZE))

\* the TLB and CP0 after reset: nothing valid, the registers zero
TlbReset ==
    /\ tlb = [i \in 0 .. TLB_ENTRIES - 1 |->
                [hi |-> 0, lo0 |-> ZeroEntryLo, lo1 |-> ZeroEntryLo, mask |-> 0]]
    /\ cp0 = [index |-> 0, entry_hi |-> 0, entry_lo0 |-> ZeroEntryLo,
              entry_lo1 |-> ZeroEntryLo, page_mask |-> 0]
    /\ tlb_req = <<>>
    /\ tlb_idx = 0

\* write_cp0 (mips64/mmu.rs:67-70)
WriteCp0(c, reg, value) == [c EXCEPT ![reg] = value]

\* the entry the CP0 registers describe
Cp0Entry(c) ==
    [hi |-> c.entry_hi, lo0 |-> c.entry_lo0, lo1 |-> c.entry_lo1, mask |-> c.page_mask]

\* tlbwi (mips64/mmu.rs:91): the entry CP0 Index names is written
Tlbwi(t, c) == [t EXCEPT ![c.index] = Cp0Entry(c)]

\* tlb_write (mips64/mmu.rs:74-77) executes tlbwr: the entry CP0 Random
\* names is written, whatever CP0 Index holds
TlbWrite(t, c, random) == [t EXCEPT ![random] = Cp0Entry(c)]

\* the values CP0 Random can have when tlbwr executes; two of the
\* TLB_ENTRIES possible ones
TlbRandoms == {0, TLB_ENTRIES - 1}

\* tlb_clear_all (mips64/mmu.rs:81-94): for index 0 .. 63, Index and the
\* EntryLo registers are written and tlbwi executed; EntryHi and PageMask
\* keep the value they had, so every entry gets the same one
TlbClearAll(t, c) ==
    LET c1 == WriteCp0(WriteCp0(WriteCp0(c, "index", TLB_ENTRIES - 1),
                                "entry_lo0", ZeroEntryLo),
                       "entry_lo1", ZeroEntryLo)
    IN  [tlb |-> [index \in 0 .. TLB_ENTRIES - 1 |->
                    Tlbwi(t, WriteCp0(c1, "index", index))[index]],
         cp0 |-> c1]

\* map_tlb_entry (mips64/mmu.rs:108-140)
MapTlbEntry(t, c, random, tlb_index, virtual_addr, phys_addr_low, phys_addr_high, flags) ==
    LET c1 == WriteCp0(c, "page_mask", 0)
        c2 == WriteCp0(c1, "entry_hi", EntryHi(virtual_addr))
        c3 == WriteCp0(c2, "entry_lo0", EntryLo(phys_addr_low, flags))
        c4 == WriteCp0(c3, "entry_lo1", EntryLo(phys_addr_high, flags))
        c5 == WriteCp0(c4, "index", tlb_index)
    IN  [tlb |-> TlbWrite(t, c5, random), cp0 |-> c5]

\* the physical addresses the TLB translates virtual_addr to: one per valid
\* matching entry
TlbTranslate(t, virtual_addr) ==
    {(IF (virtual_addr \div PAGE_SIZE) % 2 = 0 THEN t[i].lo0.pfn ELSE t[i].lo1.pfn)
        * PAGE_SIZE + (virtual_addr % PAGE_SIZE) :
     i \in {j \in 0 .. TLB_ENTRIES - 1 :
              /\ t[j].hi = EntryHi(virtual_addr)
              /\ "VALID" \in (IF (virtual_addr \div PAGE_SIZE) % 2 = 0
                              THEN t[j].lo0.flags ELSE t[j].lo1.flags)}}

\* the flags enable_paging passes (mips64/mmu.rs:152-155)
TlbKernelFlags == {"VALID", "DIRTY", "GLOBAL", "CACHE_WB"}

\* the arguments of the calls: indexes, and pairs of pages
TlbIndexes == {0, 1, 2}

TlbVAddrs == {0, 2 * PAGE_SIZE, 4 * PAGE_SIZE}

\* a call map_tlb_entry(tlb_index, va, va, va + 4K, flags) with an index
\* and a page pair no earlier call was given
MapTlbEntryCall(tlb_index, virtual_addr) ==
    /\ Len(tlb_req) < MaxTlbWrites
    /\ \A k \in 1 .. Len(tlb_req) :
         tlb_req[k][1] # tlb_index /\ tlb_req[k][2] # virtual_addr
    /\ \E random \in TlbRandoms :
         LET r == MapTlbEntry(tlb, cp0, random, tlb_index, virtual_addr,
                              virtual_addr, virtual_addr + PAGE_SIZE, TlbKernelFlags)
         IN  /\ tlb' = r.tlb
             /\ cp0' = r.cp0
    /\ tlb_req' = Append(tlb_req, <<tlb_index, virtual_addr, virtual_addr,
                                    virtual_addr + PAGE_SIZE, TlbKernelFlags>>)
    /\ UNCHANGED tlb_idx

(***************************************************************************)
(* init_mmu (arch/*/mmu.rs)                                                *)
(***************************************************************************)
MmuArchs == PageTableArchs \cup {"mips64"}

\* init_mmu is about to run
MmuInit ==
    /\ m_arch \in MmuArchs
    /\ m_phase = "setup"
    /\ PageInitCommon
    /\ TlbReset

\* the virtual address the mapping loop maps the physical address addr at
\* (amd64/mmu.rs:211, rv64i/mmu.rs:200; armv9/mmu.rs:211 adds
\* KERNEL_START_VADDR)
IdentityVAddr(archv, addr) ==
    IF archv = "armv9"
    THEN VAddr(KERNEL_START_VADDR.top, KERNEL_START_VADDR.low + addr)
    ELSE VAddr(0, addr)

\* count iterations of the mapping loop, from page number first on, in the
\* order of the loop: the lower half of the range is mapped, then the upper
\* half is mapped in the memory the lower half has left
RECURSIVE MapRange(_, _, _, _, _)
MapRange(archv, m, base, first, count) ==
    IF count = 1
    THEN MapPage(archv, m, base, RootTableAddr(base),
                 IdentityVAddr(archv, first * PAGE_SIZE), first * PAGE_SIZE,
                 KernelFlags(archv))
    ELSE LET half == count \div 2
             lower == MapRange(archv, m, base, first, half)
         IN  IF Frame(RootTableAddr(base)) \in DOMAIN lower
             THEN MapRange(archv, lower, base, first + half, count - half)
             ELSE lower

\* setup_initial_paging (amd64/mmu.rs:189-217, rv64i/mmu.rs:174-206) and the
\* first part of enable_mmu (armv9/mmu.rs:198-213): the root table is
\* zeroed and map_page called for every page below IDENTITY_MAPPING_SIZE
SetupInitialPaging ==
    /\ m_phase = "setup"
    /\ m_arch \in PageTableArchs
    /\ m_mem' = MapRange(m_arch,
                         (Frame(RootTableAddr(m_base)) :> ZeroTable) @@ m_mem,
                         m_base, 0, IDENTITY_MAPPING_SIZE \div PAGE_SIZE)
    /\ m_next' = IDENTITY_MAPPING_SIZE
    /\ m_phase' = "enable"
    /\ UNCHANGED <<m_arch, m_base, m_fill, m_mapped, m_root_reg, m_tlb_stale,
                   m_pipe_stale, m_log>>
    /\ UNCHANGED tlbVars

\* enable_paging's call of tlb_clear_all (mips64/mmu.rs:148)
InitTlbClearAll ==
    /\ m_phase = "setup"
    /\ m_arch = "mips64"
    /\ m_log = <<>>
    /\ LET r == TlbClearAll(tlb, cp0)
       IN  /\ tlb' = r.tlb
           /\ cp0' = r.cp0
    /\ m_log' = <<"tlb_clear_all">>
    /\ UNCHANGED <<m_arch, m_base, m_fill, m_mem, m_phase, m_next, m_mapped,
                   m_root_reg, m_tlb_stale, m_pipe_stale>>
    /\ UNCHANGED <<tlb_req, tlb_idx>>

\* one iteration of enable_paging's loop (mips64/mmu.rs:159-167): 8 KiB
\* steps, left when tlb_idx reaches TLB_ENTRIES
InitMapTlbEntry ==
    /\ m_phase = "setup"
    /\ m_arch = "mips64"
    /\ m_log = <<"tlb_clear_all">>
    /\ m_next < IDENTITY_MAPPING_SIZE
    /\ tlb_idx < TLB_ENTRIES
    /\ \E random \in TlbRandoms :
         LET r == MapTlbEntry(tlb, cp0, random, tlb_idx, m_next, m_next,
                              m_next + PAGE_SIZE, TlbKernelFlags)
         IN  /\ tlb' = r.tlb
             /\ cp0' = r.cp0
    /\ tlb_idx' = tlb_idx + 1
    /\ m_next' = m_next + 2 * PAGE_SIZE
    /\ m_phase' = IF m_next' < IDENTITY_MAPPING_SIZE /\ tlb_idx' < TLB_ENTRIES
                  THEN "setup" ELSE "enable"
    /\ UNCHANGED <<m_arch, m_base, m_fill, m_mem, m_mapped, m_root_reg,
                   m_tlb_stale, m_pipe_stale, m_log>>
    /\ UNCHANGED tlb_req

\* the privileged operations of enable_paging / enable_mmu in program
\* order (amd64/mmu.rs:226, rv64i/mmu.rs:223-227, armv9/mmu.rs:216-256);
\* on mips64 the first is the tlb_clear_all before the loop and the others
\* follow the loop (mips64/mmu.rs:148, 182-184)
EnableProgram(archv) ==
    CASE archv = "amd64" -> <<"mov cr3">>
      [] archv = "rv64i" -> <<"csrw satp", "fence.i">>
      [] archv = "armv9" -> <<"msr ttbr1_el1", "msr mair_el1", "msr tcr_el1",
                              "tlbi vmalle1", "dsb", "msr sctlr_el1", "isb">>
      [] archv = "mips64" -> <<"tlb_clear_all", "mtc0 status", "sync">>

\* the root-pointer register an instruction writes, "" if none
RootRegisterOf(instr) ==
    CASE instr = "mov cr3" -> "cr3"
      [] instr = "csrw satp" -> "satp"
      [] instr = "msr ttbr1_el1" -> "ttbr1_el1"
      [] OTHER -> ""

\* what the instruction does to the TLB: a write of CR3 flushes it, the
\* other root-pointer writes leave old translations in it, tlbi vmalle1
\* invalidates all of it
TlbStaleAfter(instr, stale) ==
    CASE instr = "mov cr3" -> FALSE
      [] instr \in {"csrw satp", "msr ttbr1_el1"} -> TRUE
      [] instr = "tlbi vmalle1" -> FALSE
      [] OTHER -> stale

\* what it does to the instruction stream: mov cr3 serializes, fence.i and
\* isb are the instruction barriers, every other change of translation
\* state leaves instructions fetched before it in flight
PipeStaleAfter(instr, stale) ==
    CASE instr \in {"mov cr3", "fence.i", "isb"} -> FALSE
      [] instr \in {"csrw satp", "msr ttbr1_el1", "msr mair_el1", "msr tcr_el1",
                    "tlbi vmalle1", "msr sctlr_el1", "mtc0 status"} -> TRUE
      [] OTHER -> stale

\* enable_paging / enable_mmu executes its next privileged instruction
EnableStep ==
    /\ m_phase = "enable"
    /\ LET prog == EnableProgram(m_arch)
           instr == prog[Len(m_log) + 1]
       IN  /\ m_log' = Append(m_log, instr)
           /\ m_root_reg' = IF RootRegisterOf(instr) = "" THEN m_root_reg
                            ELSE [m_root_reg EXCEPT ![RootRegisterOf(instr)] =
                                     <<RootTableAddr(m_base)>>]
           /\ m_tlb_stale' = TlbStaleAfter(instr, m_tlb_stale)
           /\ m_pipe_stale' = PipeStaleAfter(instr, m_pipe_stale)
           /\ m_phase' = IF Len(m_log') = Len(prog) THEN "done" ELSE "enable"
    /\ UNCHANGED <<m_arch, m_base, m_fill, m_mem, m_next, m_mapped>>
    /\ UNCHANGED tlbVars

\* the translation the MMU makes of a virtual address once init_mmu has
\* returned: the walk from the root register that serves the address
\* (TTBR1_EL1 for the upper half on AArch64, TTBR0_EL1 for the lower), or
\* the TLB on MIPS; the set of physical addresses, empty for a fault
HwTranslate(va) ==
    IF m_arch = "mips64"
    THEN TlbTranslate(tlb, va.low)
    ELSE LET reg == CASE m_arch = "amd64" -> "cr3"
                      [] m_arch = "rv64i" -> "satp"
                      [] m_arch = "armv9" -> IF va.top >= KERNEL_START_VADDR.top
                                             THEN "ttbr1_el1" ELSE "ttbr0_el1"
         IN  IF m_root_reg[reg] = <<>> THEN {}
             ELSE LET tr == Translate(m_arch, m_mem, m_root_reg[reg][1], va)
                  IN  {tr[k] : k \in 1 .. Len(tr)}

(***************************************************************************)
(* The serial console (arch/amd64/console.rs, arch/armv9/console.rs)       *)
(*                                                                         *)
(* write_str walks the bytes of s and calls write_byte for each byte it    *)
(* sends; write_byte polls the line-status register until                  *)
(* is_transmit_empty answers true and then writes the data register.  The  *)
(* UART empties its holding register at a time of its own.                 *)
(***************************************************************************)
VARIABLES
    u_arch,       \* the backend built in
    u_s,          \* the argument s of write_str, as bytes
    u_i,          \* how many bytes of s the for loop has taken
    u_pending,    \* the write_byte calls the current match arm has yet to make
    u_pc,         \* where the call is
    u_byte,       \* the argument of the write_byte call running
    u_lsr,        \* the line-status register of the UART
    u_wire,       \* the bytes written to the data register, in order
    u_seen_thre   \* the running write_byte call has read an LSR with THRE set

consoleVars == <<u_arch, u_s, u_i, u_pending, u_pc, u_byte, u_lsr, u_wire,
                 u_seen_thre>>

ConsoleArchs == {"amd64", "armv9"}

\* the bytes the strings are made of: LF, CR and a letter
ConsoleBytes == {LF, CR, 65}

\* the strings handed to write_str
RECURSIVE StringsOfLen(_)
StringsOfLen(n) ==
    IF n = 0 THEN {<<>>}
    ELSE {Append(s, b) : s \in StringsOfLen(n - 1), b \in ConsoleBytes}

ConsoleStrings == UNION {StringsOfLen(n) : n \in 0 .. MaxStrLen}

\* values the line-status register can hold: bit 0 data ready, bit 5 THRE,
\* bit 6 transmitter empty
LsrValues == {0, 1, LSR_THRE, LSR_THRE + 1, LSR_THRE + 64}

\* status & 0x20
AndThre(status) == ((status \div LSR_THRE) % 2) * LSR_THRE

\* is_transmit_empty (amd64/console.rs:65-72): (status & 0x20) == 0x20
IsTransmitEmptyAmd64(status) == AndThre(status) = LSR_THRE

\* a test of the data-ready bit in place of THRE
IsTransmitEmptyArmv9_DataReady(status) == status % 2 # 0

\* is_transmit_empty (armv9/console.rs:56-66): (status & 0x20) != 0
IsTransmitEmptyArmv9(status) == AndThre(status) # 0

IsTransmitEmpty(archv, status) ==
    IF archv = "amd64" THEN IsTransmitEmptyAmd64(status)
    ELSE IsTransmitEmptyArmv9(status)

\* a match arm that sends LF as it is
WriteStrArm_NoCr(byte) == <<byte>>

\* the match in write_str (amd64/console.rs:91-99, armv9/console.rs:88-96):
\* the write_byte calls made for one byte of s
WriteStrArm(byte) == IF byte = LF THEN <<CR, LF>> ELSE <<byte>>

\* write_str(s) is called
ConsoleInit ==
    /\ u_arch \in ConsoleArchs
    /\ u_s \in ConsoleStrings
    /\ u_i = 0
    /\ u_pending = <<>>
    /\ u_pc = "loop"
    /\ u_byte = 0
    /\ u_lsr \in LsrValues
    /\ u_wire = <<>>
    /\ u_seen_thre = FALSE

\* the variables while another subsystem is looked at
ConsoleIdle ==
    /\ u_arch = "amd64"
    /\ u_s = <<>>
    /\ u_i = 0
    /\ u_pending = <<>>
    /\ u_pc = "done"
    /\ u_byte = 0
    /\ u_lsr = LSR_THRE + 64
    /\ u_wire = <<>>
    /\ u_seen_thre = FALSE

\* for byte in s.bytes() { match byte { ... } }: the next byte is taken
WriteStrMatch ==
    /\ u_pc = "loop"
    /\ u_i < Len(u_s)
    /\ u_i' = u_i + 1
    /\ u_pending' = WriteStrArm(u_s[u_i + 1])
    /\ u_pc' = "call"
    /\ UNCHANGED <<u_arch, u_s, u_byte, u_lsr, u_wire, u_seen_thre>>

\* the loop is over: Ok(())
WriteStrReturn ==
    /\ u_pc = "loop"
    /\ u_i = Len(u_s)
    /\ u_pc' = "done"
    /\ UNCHANGED <<u_arch, u_s, u_i, u_pending, u_byte, u_lsr, u_wire, u_seen_thre>>

\* self.write_byte(b): the next call of the arm
WriteByteCall ==
    /\ u_pc = "call"
    /\ u_byte' = Head(u_pending)
    /\ u_pending' = Tail(u_pending)
    /\ u_seen_thre' = FALSE
    /\ u_pc' = "poll"
    /\ UNCHANGED <<u_arch, u_s, u_i, u_lsr, u_wire>>

\* while !Self::is_transmit_empty() {} (amd64/console.rs:77,
\* armv9/console.rs:72): one read of the line-status register
WriteBytePoll ==
    /\ u_pc = "poll"
    /\ u_seen_thre' = (u_seen_thre \/ AndThre(u_lsr) = LSR_THRE)
    /\ u_pc' = IF IsTransmitEmpty(u_arch, u_lsr) THEN "write" ELSE "poll"
    /\ UNCHANGED <<u_arch, u_s, u_i, u_pending, u_byte, u_lsr, u_wire>>

\* the write of the data register (amd64/console.rs:80-82,
\* armv9/console.rs:75-80); the holding register is full after it
WriteByteData ==
    /\ u_pc = "write"
    /\ u_wire' = Append(u_wire, u_byte)
    /\ u_lsr' = u_lsr % LSR_THRE
    /\ u_pc' = "ret"
    /\ UNCHANGED <<u_arch, u_s, u_i, u_pending, u_byte, u_seen_thre>>

\* write_byte returns into the match arm
WriteByteReturn ==
    /\ u_pc = "ret"
    /\ u_pc' = IF u_pending = <<>> THEN "loop" ELSE "call"
    /\ UNCHANGED <<u_arch, u_s, u_i, u_pending, u_byte, u_lsr, u_wire, u_seen_thre>>

\* the UART: the line-status register changes while a call is running
UartStatusChange ==
    /\ u_pc # "done"
    /\ \E status \in LsrValues :
         /\ status # u_lsr
         /\ u_lsr' = status
    /\ UNCHANGED <<u_arch, u_s, u_i, u_pending, u_pc, u_byte, u_wire, u_seen_thre>>

(***************************************************************************)
(* Two producers that wrap every send in lock() / unlock() of one Spinlock *)
(* (ipc.rs:85-106 inside platformgeneric.rs:91-110)                        *)
(***************************************************************************)
\* the producer p as a context of the Spinlock
LockContextOf(p) == SenderId(p)

\* producers that have called lock() and not yet begun their send
AboutToSend ==
    {p \in Producers : l_pc[LockContextOf(p)] # "idle" /\ p_pc[p] = "idle"
                        /\ p_ret[p] = <<"none">>}

\* lock.lock() ahead of a send: the producer begins to spin
ProducerLock(p) ==
    /\ l_pc[LockContextOf(p)] = "idle"
    /\ p_pc[p] = "idle"
    /\ sendCalls + Cardinality(AboutToSend) < MaxLockedSends
    /\ l_pc' = [l_pc EXCEPT ![LockContextOf(p)] = "lock"]
    /\ p_ret' = [p_ret EXCEPT ![p] = <<"none">>]
    /\ UNCHANGED <<locked, l_calls>>
    /\ UNCHANGED <<messages, head, tail, p_pc, p_message, p_next_tail, p_tail,
                   consumerLocals, sendCalls, sentOk, rejected, received>>

\* one turn of the loop of lock()
ProducerLockTry(p) ==
    /\ LockTry(LockContextOf(p))
    /\ UNCHANGED ipcVars

\* a step of queue.send(message) between lock() and unlock()
ProducerSend(p) ==
    /\ l_pc[LockContextOf(p)] = "held"
    /\ (p_pc[p] = "idle") => (p_ret[p] = <<"none">>)
    /\ Send(p)
    /\ UNCHANGED lockVars

\* lock.unlock() after send has returned
ProducerUnlock(p) ==
    /\ p_pc[p] = "idle"
    /\ p_ret[p] # <<"none">>
    /\ Unlock(LockContextOf(p))
    /\ UNCHANGED ipcVars

\* a step of receive, which takes no lock
ConsumerReceive ==
    /\ Receive
    /\ UNCHANGED lockVars

(***************************************************************************)
(* Interrupt controllers (arch/*/interrupt.rs) and the interrupt branch of *)
(* the trap handlers (arch/*/exception.rs)                                 *)
(*                                                                         *)
(* A controller is a set of unmasked lines and a set of pending lines.     *)
(* What the enable registers hold before the init routine runs is left by  *)
(* reset or firmware and is any value.                                     *)
(***************************************************************************)
\* the elements of a sequence
Range(seq) == {seq[i] : i \in 1 .. Len(seq)}

VARIABLES
    ic_arch,      \* the backend the kernel was built for
    ic_phase,     \* "reset" before the init routine has run, "ready" after
    ic_enabled,   \* the lines the enable / mask registers leave unmasked
    ic_named,     \* the lines named by enable_irq / unmask_irq since init
    ic_pending,   \* the lines with a pending interrupt
    ic_run,       \* what the last run of an interrupt handler did
    ic_ops        \* number of operations made

irqVars == <<ic_arch, ic_phase, ic_enabled, ic_named, ic_pending, ic_run, ic_ops>>

\* the backends whose init routine is modelled, and the two whose get_irq is
IcInitArchs == {"rv64i", "armv9", "amd64"}

IcArchs == IcInitArchs \cup {"loongarch64", "openrisc64"}

\* the lines of a controller: PLIC sources 1..255 (rv64i/interrupt.rs:74),
\* GIC INTIDs 0..255 (armv9/interrupt.rs:58), the sixteen lines of the two
\* 8259s, the 32 bits of the HT-PIC and OpenRISC PIC registers
IcLines(archv) ==
    CASE archv = "rv64i" -> 1..255
      [] archv = "armv9" -> 0..255
      [] archv = "amd64" -> 0..15
      [] OTHER -> 0..31

\* the lines the model drives: the first and last line of every register
\* word, and the cascade line of the 8259
IcProbes(archv) == IcLines(archv) \cap {0, 1, 2, 9, 31, 32, 255}

\* the bits of one 32-bit register word, as line numbers
Word(w) == (32 * w)..(32 * w + 31)

\* ---- rv64i
\* Plic::init (rv64i/interrupt.rs:63-78): one write, of 0, to the first
\* enable word
PlicInit(enabled) == enabled \ Word(0)

\* Plic::enable_irq (rv64i/interrupt.rs:81-89)
PlicEnableIrq(enabled, irq_id) ==
    LET reg_offset == irq_id \div 32
        bit_offset == irq_id % 32
    IN  enabled \cup {32 * reg_offset + bit_offset}

\* Plic::disable_irq (rv64i/interrupt.rs:92-100)
PlicDisableIrq(enabled, irq_id) ==
    LET reg_offset == irq_id \div 32
        bit_offset == irq_id % 32
    IN  enabled \ {32 * reg_offset + bit_offset}

\* the smallest element of a non-empty set of lines
MinLine(s) == CHOOSE x \in s : \A y \in s : x <= y

\* the largest element of a non-empty set of lines
MaxLine(s) == CHOOSE x \in s : \A y \in s : y <= x

\* Plic::claim_irq (rv64i/interrupt.rs:103-105): the claim register reads as
\* the pending, enabled source that wins arbitration (all priorities are 1,
\* so the lowest id), or 0
PlicClaimIrq(enabled, pending) ==
    IF pending \cap enabled = {} THEN 0 ELSE MinLine(pending \cap enabled)

\* handle_external_interrupts (rv64i/interrupt.rs:144-159): the ids claimed
\* and the ids completed
HandleExternalInterruptsRv64i(enabled, pending) ==
    LET irq_id == PlicClaimIrq(enabled, pending)
    IN  [acked |-> IF irq_id = 0 THEN <<>> ELSE <<irq_id>>,
         eois |-> IF irq_id > 0 /\ irq_id < 1024 THEN <<irq_id>> ELSE <<>>]

\* handle_interrupt (rv64i/exception.rs:126-143): the call into the PLIC
\* code is commented out in every arm
HandleInterruptRv64i(cause, enabled, pending) == [acked |-> <<>>, eois |-> <<>>]

\* ---- armv9
\* GicDistributor::init (armv9/interrupt.rs:49-66): 0xFFFFFFFF to the
\* clear-enable words of lines 32, 64, ..., 224
GicDistributorInit(enabled) ==
    enabled \ UNION {Word(i \div 32) : i \in {32 * k : k \in 1..7}}

\* GicDistributor::enable_irq (armv9/interrupt.rs:69-73)
GicEnableIrq(enabled, irq) == enabled \cup {32 * (irq \div 32) + (irq % 32)}

\* GicDistributor::disable_irq (armv9/interrupt.rs:76-80)
GicDisableIrq(enabled, irq) == enabled \ {32 * (irq \div 32) + (irq % 32)}

\* ---- amd64.  A mask register is the set of its zero bits.
\* init_pic (amd64/interrupt.rs:57-99): masks 0b11111011 and 0b11111111
InitPic(enabled) == {2}

\* unmask_irq (amd64/interrupt.rs:137-151)
UnmaskIrq(enabled, irq_line) ==
    IF irq_line < 8 THEN enabled \cup {irq_line}
    ELSE enabled \cup {8 + (irq_line - 8)}

\* mask_irq (amd64/interrupt.rs:120-134)
MaskIrq(enabled, irq_line) ==
    IF irq_line < 8 THEN enabled \ {irq_line}
    ELSE enabled \ {8 + (irq_line - 8)}

\* generic_interrupt_handler (amd64/exception.rs:179-199): the CPU's
\* interrupt-acknowledge cycle has taken the vector from the 8259; the call
\* of send_eoi is commented out
GenericInterruptHandlerEoi(vector) == [acked |-> <<vector - 32>>, eois |-> <<>>]

\* ---- loongarch64 and openrisc64.  A status register is the set of its
\* one bits.
\* u32::leading_zeros of a non-zero word
LeadingZeros(status) == 31 - MaxLine(status)

\* get_irq (loongarch64/interrupt.rs:69-80, openrisc64/interrupt.rs:62-71)
GetIrq(status) == IF status = {} THEN 0 ELSE 31 - LeadingZeros(status)

\* handle_external_interrupts (loongarch64/interrupt.rs:108-123,
\* openrisc64/interrupt.rs:132-147)
HandleExternalInterruptsPic(status) ==
    LET irq_line == GetIrq(status)
    IN  [acked |-> IF irq_line > 0 THEN <<irq_line>> ELSE <<>>,
         eois |-> IF irq_line > 0 THEN <<irq_line>> ELSE <<>>]

\* ---- the operations
IcInitOf(archv, enabled) ==
    CASE archv = "rv64i" -> PlicInit(enabled)
      [] archv = "armv9" -> GicDistributorInit(enabled)
      [] archv = "amd64" -> InitPic(enabled)

IcEnableOf(archv, enabled, line) ==
    CASE archv = "rv64i" -> PlicEnableIrq(enabled, line)
      [] archv = "armv9" -> GicEnableIrq(enabled, line)
      [] archv = "amd64" -> UnmaskIrq(enabled, line)

IcDisableOf(archv, enabled, line) ==
    CASE archv = "rv64i" -> PlicDisableIrq(enabled, line)
      [] archv = "armv9" -> GicDisableIrq(enabled, line)
      [] archv = "amd64" -> MaskIrq(enabled, line)

NoRun == [entry |-> "none", had |-> {}, acked |-> <<>>, eois |-> <<>>]

\* the controller as reset or firmware left it; the HT-PIC and the OpenRISC
\* PIC start after their init_pic, which masks all 32 lines with one write
\* (loongarch64/interrupt.rs:43-52, openrisc64/interrupt.rs:37-47)
IrqInit ==
    /\ ic_arch \in IcArchs
    /\ ic_phase = IF ic_arch \in IcInitArchs THEN "reset" ELSE "ready"
    /\ ic_enabled \in
         IF ic_arch \in IcInitArchs THEN SUBSET IcProbes(ic_arch) ELSE {{}}
    /\ ic_named = {}
    /\ ic_pending = {}
    /\ ic_run = NoRun
    /\ ic_ops = 0

\* the variables while another subsystem is looked at
IrqIdle ==
    /\ ic_arch = "amd64"
    /\ ic_phase = "reset"
    /\ ic_enabled = {}
    /\ ic_named = {}
    /\ ic_pending = {}
    /\ ic_run = NoRun
    /\ ic_ops = 0

\* Plic::init / GicDistributor::init / init_pic
IcInitCall ==
    /\ ic_phase = "reset"
    /\ ic_arch \in IcInitArchs
    /\ ic_enabled' = IcInitOf(ic_arch, ic_enabled)
    /\ ic_named' = {}
    /\ ic_phase' = "ready"
    /\ UNCHANGED <<ic_arch, ic_pending, ic_run, ic_ops>>

\* enable_irq / unmask_irq of one line
IcEnableIrq ==
    /\ ic_phase = "ready"
    /\ ic_arch \in IcInitArchs
    /\ ic_ops < MaxIcOps
    /\ \E line \in IcProbes(ic_arch) :
         /\ ic_enabled' = IcEnableOf(ic_arch, ic_enabled, line)
         /\ ic_named' = ic_named \cup {line}
    /\ ic_ops' = ic_ops + 1
    /\ UNCHANGED <<ic_arch, ic_phase, ic_pending, ic_run>>

\* disable_irq / mask_irq of one line
IcDisableIrq ==
    /\ ic_phase = "ready"
    /\ ic_arch \in IcInitArchs
    /\ ic_ops < MaxIcOps
    /\ \E line \in IcProbes(ic_arch) :
         /\ ic_enabled' = IcDisableOf(ic_arch, ic_enabled, line)
         /\ ic_named' = ic_named \ {line}
    /\ ic_ops' = ic_ops + 1
    /\ UNCHANGED <<ic_arch, ic_phase, ic_pending, ic_run>>

\* a device raises its line
IcRaise ==
    /\ ic_phase = "ready"
    /\ ic_ops < MaxIcOps
    /\ \E line \in IcProbes(ic_arch) \ ic_pending :
         ic_pending' = ic_pending \cup {line}
    /\ ic_ops' = ic_ops + 1
    /\ UNCHANGED <<ic_arch, ic_phase, ic_enabled, ic_named, ic_run>>

\* the lines the controller presents to the CPU
IcDeliverable == ic_pending \cap ic_enabled

\* the CPU takes the interrupt and the trap handler runs its interrupt branch
\* to the end: generic_trap_handler -> handle_interrupt on rv64i, the IDT
\* stub -> generic_interrupt_handler on amd64 (vectors 32 and 33 are
\* installed, amd64/exception.rs:101-120)
IcTrapInterrupt ==
    /\ ic_phase = "ready"
    /\ ic_arch \in {"rv64i", "amd64"}
    /\ ic_ops < MaxIcOps
    /\ \E line \in IcDeliverable :
         /\ ic_arch = "amd64" => line \in {0, 1}
         /\ LET scause == [interrupt |-> TRUE, code |-> 9]
                r == IF ic_arch = "rv64i"
                     THEN HandleInterruptRv64i(FromScause(scause), ic_enabled,
                                               ic_pending)
                     ELSE GenericInterruptHandlerEoi(32 + line)
            IN  /\ IF ic_arch = "rv64i"
                   THEN GenericTrapHandlerRv64i(scause, 4096).class = "interrupt"
                   ELSE IdtAmd64(32 + line, 4096).class = "interrupt"
                /\ ic_run' = [entry |-> "trap",
                              had |-> IF ic_arch = "rv64i" THEN IcDeliverable
                                      ELSE {line},
                              acked |-> r.acked, eois |-> r.eois]
                /\ ic_pending' = ic_pending \ Range(r.acked)
    /\ ic_ops' = ic_ops + 1
    /\ UNCHANGED <<ic_arch, ic_phase, ic_enabled, ic_named>>

\* handle_external_interrupts, called on its own
IcHandleExternalInterrupts ==
    /\ ic_phase = "ready"
    /\ ic_arch \in {"rv64i", "loongarch64", "openrisc64"}
    /\ ic_ops < MaxIcOps
    /\ LET r == IF ic_arch = "rv64i"
                THEN HandleExternalInterruptsRv64i(ic_enabled, ic_pending)
                ELSE HandleExternalInterruptsPic(ic_pending)
       IN  /\ ic_run' = [entry |-> "external",
                         had |-> IF ic_arch = "rv64i" THEN IcDeliverable
                                 ELSE ic_pending,
                         acked |-> r.acked, eois |-> r.eois]
           /\ ic_pending' = ic_pending \ Range(r.eois)
    /\ ic_ops' = ic_ops + 1
    /\ UNCHANGED <<ic_arch, ic_phase, ic_enabled, ic_named>>

(***************************************************************************)
(* Reboot (arch/*/shutdown.rs, arch/*/power.rs)                            *)
(*                                                                         *)
(* system_reboot is a straight-line program of attempts followed by        *)
(* halt_loop.  An attempt is a write or a call that asks the platform to   *)
(* reset the machine: the platform either resets it, and the kernel is     *)
(* gone, or leaves it running, and control goes on to the next statement.  *)
(***************************************************************************)
VARIABLES
    rb_fn,        \* which system_reboot is called
    rb_pc,        \* "idle" | "body" | "halt_loop"
    rb_i,         \* in the body, the index of the next statement
    rb_machine,   \* "running" | "reset" | "stopped"
    rb_ie,        \* the CPU's interrupt-enable flag
    rb_wait,      \* the CPU sits in hlt / wfi
    rb_io,        \* the attempts and other hardware accesses made, in order
    rb_busy,      \* reads of the 8042 status port that find it busy
    rb_polls      \* reads of the status port made by the wait loop

rebootVars == <<rb_fn, rb_pc, rb_i, rb_machine, rb_ie, rb_wait, rb_io, rb_busy, rb_polls>>

\* the system_reboot functions of the three backends
RebootFns ==
    {"amd64/shutdown", "amd64/power", "rv64i/shutdown", "rv64i/power",
     "armv9/shutdown"}

Stmt(op, a, b) == [op |-> op, a |-> a, b |-> b]

\* PSCI_FN_SYSTEM_RESET, 0x84000009, as its two 16-bit halves
\* (armv9/shutdown.rs:17)
PSCI_FN_SYSTEM_RESET == <<33792, 9>>

\* the arguments of the SBI call: a7, a6, a0, a1 (rv64i/shutdown.rs:91-97)
SbiSystemReset ==
    <<EID_SRST, SRST_FUNCTION_SYSTEM_RESET, SRST_TYPE_COLD_REBOOT, SRST_REASON_NONE>>

\* system_reboot, statement by statement
RebootProgram(fn) ==
    CASE fn = "amd64/shutdown" ->
            \* amd64/shutdown.rs:65-91, with reboot_via_keyboard_controller
            \* (43-62) in place
            << Stmt("disable_interrupts", 0, 0),
               Stmt("poll", KBD_CTRL_PORT, 65536),
               Stmt("outb", KBD_CTRL_PORT, KBD_CMD_REBOOT),
               Stmt("pause", 0, 0),
               Stmt("lidt", 0, 0),
               Stmt("int3", 0, 0) >>
      [] fn = "amd64/power" ->
            \* amd64/power.rs:37-55, with kbd_wait (16-30) in place
            << Stmt("disable_interrupts", 0, 0),
               Stmt("poll", KBD_CTRL_PORT, KBD_WAIT_POLLS),
               Stmt("outb", KBD_CTRL_PORT, KBD_CMD_REBOOT) >>
      [] fn = "rv64i/shutdown" ->
            \* rv64i/shutdown.rs:81-101
            << Stmt("disable_interrupts", 0, 0),
               Stmt("ecall", SbiSystemReset, 0) >>
      [] fn = "rv64i/power" ->
            \* rv64i/power.rs:33-52
            << Stmt("disable_interrupts", 0, 0),
               Stmt("fence", 0, 0),
               Stmt("mmio", SIFIVE_TEST_FAIL, SIFIVE_TEST_REBOOT),
               Stmt("fence", 0, 0) >>
      [] fn = "armv9/shutdown" ->
            \* armv9/shutdown.rs:112-128, with reboot_via_psci (81-94) and
            \* reboot_via_mmio (97-109) in place
            << Stmt("disable_interrupts", 0, 0),
               Stmt("smc", PSCI_FN_SYSTEM_RESET, 0),
               Stmt("mmio", QEMU_TEST_ADDR, QEMU_REBOOT_MAGIC),
               Stmt("dsb", 0, 0),
               Stmt("wfi", 0, 0) >>

\* the statements that ask the platform for a reset
AttemptOps == {"outb", "ecall", "smc", "mmio"}

\* variant: the wait loop has no bound
PollLoop_Unbounded(limit, busy_for) ==
    [polls |-> busy_for + 1, ready |-> TRUE]

\* `for _ in 0..limit { if (inb(0x64) & 0x02) == 0 { return } }`
\* (amd64/power.rs:19-28, amd64/shutdown.rs:48-52) when the first busy_for
\* reads find bit 1 set: the number of reads made, and whether the loop
\* ended on a clear bit
PollLoop(limit, busy_for) ==
    IF busy_for < limit
    THEN [polls |-> busy_for + 1, ready |-> TRUE]
    ELSE [polls |-> limit, ready |-> FALSE]

\* how long the controller stays busy: not at all, around the two loop
\* bounds, and longer than either loop waits
BusyReads == {0, 1, 65535, 65536, 99999, 100000, 100001}

RebootInit ==
    /\ rb_fn \in RebootFns
    /\ rb_pc = "idle"
    /\ rb_i = 0
    /\ rb_machine = "running"
    /\ rb_ie \in BOOLEAN
    /\ rb_wait = FALSE
    /\ rb_io = <<>>
    /\ rb_busy \in IF rb_fn \in {"amd64/shutdown", "amd64/power"}
                   THEN BusyReads ELSE {0}
    /\ rb_polls = 0

\* the variables while another subsystem is looked at
RebootIdle ==
    /\ rb_fn = "amd64/power"
    /\ rb_pc = "idle"
    /\ rb_i = 0
    /\ rb_machine = "running"
    /\ rb_ie = FALSE
    /\ rb_wait = FALSE
    /\ rb_io = <<>>
    /\ rb_busy = 0
    /\ rb_polls = 0

\* the call of system_reboot
SystemRebootCall ==
    /\ rb_pc = "idle"
    /\ rb_pc' = "body"
    /\ rb_i' = 1
    /\ UNCHANGED <<rb_fn, rb_machine, rb_ie, rb_wait, rb_io, rb_busy, rb_polls>>

\* the CPU executes the next statement of system_reboot; after the last one
\* control enters halt_loop, which masks interrupts where the file's
\* halt_loop does (amd64/shutdown.rs:25-35, rv64i/shutdown.rs:32-43,
\* armv9/shutdown.rs:32-43; not amd64/power.rs:78-85, rv64i/power.rs:18-26)
SystemRebootStep ==
    /\ rb_pc = "body"
    /\ rb_machine = "running"
    /\ ~rb_wait
    /\ LET prog == RebootProgram(rb_fn)
       IN  IF rb_i > Len(prog)
           THEN /\ rb_pc' = "halt_loop"
                /\ rb_i' = rb_i
                /\ rb_ie' = IF rb_fn \in {"amd64/power", "rv64i/power"}
                            THEN rb_ie ELSE FALSE
                /\ UNCHANGED <<rb_machine, rb_wait, rb_io, rb_polls>>
           ELSE LET s == prog[rb_i]
                IN  /\ rb_pc' = rb_pc
                    /\ rb_i' = rb_i + 1
                    /\ rb_ie' = IF s.op = "disable_interrupts" THEN FALSE ELSE rb_ie
                    /\ rb_polls' = IF s.op = "poll"
                                   THEN PollLoop(s.b, rb_busy).polls
                                   ELSE rb_polls
                    /\ rb_io' = IF s.op \in AttemptOps \cup {"lidt", "int3"}
                                THEN Append(rb_io, s)
                                ELSE rb_io
                    /\ rb_wait' = (s.op = "wfi")
                    /\ rb_machine' \in
                         IF s.op \in AttemptOps THEN {"running", "reset"}
                         ELSE IF s.op = "int3" THEN {"reset", "stopped"}
                         ELSE {"running"}
    /\ UNCHANGED <<rb_fn, rb_busy>>

\* variant: halt_loop executes hlt / wfi once and returns
HaltLoopStep_Once ==
    /\ rb_pc = "halt_loop"
    /\ rb_machine = "running"
    /\ ~rb_wait
    /\ rb_wait' = TRUE
    /\ rb_pc' = "idle"
    /\ UNCHANGED <<rb_fn, rb_i, rb_machine, rb_ie, rb_io, rb_busy, rb_polls>>

\* halt_loop: loop { hlt / wfi }
HaltLoopStep ==
    /\ rb_pc = "halt_loop"
    /\ rb_machine = "running"
    /\ ~rb_wait
    /\ rb_wait' = TRUE
    /\ UNCHANGED <<rb_fn, rb_pc, rb_i, rb_machine, rb_ie, rb_io, rb_busy, rb_polls>>

\* a wake-up event (a pending interrupt on the RISC targets, an NMI on
\* x86-64) ends the hlt / wfi the CPU sits in
RebootWake ==
    /\ rb_wait
    /\ rb_machine = "running"
    /\ rb_wait' = FALSE
    /\ UNCHANGED <<rb_fn, rb_pc, rb_i, rb_machine, rb_ie, rb_io, rb_busy, rb_polls>>

(***************************************************************************)
(* The device-tree record (arch/*/dtb.rs)                                  *)
(*                                                                         *)
(* Addresses and sizes are pairs <<high 16 bits, low 16 bits>>.  The blob  *)
(* is the four bytes at its start, in memory order.                        *)
(***************************************************************************)
VARIABLES
    d_arch,       \* the backend the kernel was built for
    d_blob,       \* the first four bytes of the blob the bootloader left
    d_info,       \* static mut DTB_INFO: physical_address and config
    d_inits,      \* the addresses parse_dtb was called with, in order
    d_ret         \* the result of the last call

dtbVars == <<d_arch, d_blob, d_info, d_inits, d_ret>>

DtbArchs == {"amd64", "rv64i"}

\* 0xD00DFEED, big-endian
FdtMagic == <<208, 13, 254, 237>>

\* what can stand at the start of the blob: the magic, the magic in
\* little-endian order, zeroes
DtbBlobs == {FdtMagic, <<237, 254, 13, 208>>, <<0, 0, 0, 0>>}

\* the addresses a bootloader hands over: none, 0x0010_0000, 0x8200_0000
NullAddr == <<0, 0>>

DtbAddrs == {NullAddr, <<16, 0>>, <<33280, 0>>}

None == [some |-> FALSE]

Some(v) == [some |-> TRUE, value |-> v]

Ok(v) == [ok |-> TRUE, value |-> v]

Err(e) == [ok |-> FALSE, error |-> e]

\* the HardwareConfig parse_dtb builds (amd64/dtb.rs:75-86,
\* rv64i/dtb.rs:70-81)
DefaultHardwareConfig(archv) ==
    IF archv = "amd64"
    THEN [console_addr |-> <<0, 1016>>,
          ram_start |-> <<4096, 0>>,
          ram_size |-> <<8192, 0>>,
          interrupt_controller_addr |-> <<65248, 0>>]
    ELSE [console_addr |-> <<4096, 0>>,
          ram_start |-> <<32768, 0>>,
          ram_size |-> <<2048, 0>>,
          plic_addr |-> <<3072, 0>>,
          clint_addr |-> <<512, 0>>]

\* DtbParser::parse_dtb (amd64/dtb.rs:61-93, rv64i/dtb.rs:61-88): the result
\* and DTB_INFO after the call; the blob is not read
ParseDtb(archv, info, dtb_addr) ==
    IF dtb_addr = NullAddr
    THEN [ret |-> Err("DtbNotFound"), info |-> info]
    ELSE LET config == DefaultHardwareConfig(archv)
         IN  [ret |-> Ok(config), info |-> [info EXCEPT !.config = Some(config)]]

\* DtbParser::get_config (amd64/dtb.rs:96-100)
GetConfig(info) ==
    IF info.config.some THEN Ok(info.config.value)
    ELSE Err("ConfigurationNotParsed")

\* DtbParser::set_dtb_address (amd64/dtb.rs:49-55)
SetDtbAddress(info, addr) ==
    IF addr # NullAddr THEN [info EXCEPT !.physical_address = addr] ELSE info

\* static mut DTB_INFO (amd64/dtb.rs:39-42)
DtbInit ==
    /\ d_arch \in DtbArchs
    /\ d_blob \in DtbBlobs
    /\ d_info = [physical_address |-> NullAddr, config |-> None]
    /\ d_inits = <<>>
    /\ d_ret = <<"none">>

\* the variables while another subsystem is looked at
DtbIdle ==
    /\ d_arch = "amd64"
    /\ d_blob = FdtMagic
    /\ d_info = [physical_address |-> NullAddr, config |-> None]
    /\ d_inits = <<>>
    /\ d_ret = <<"none">>

SetDtbAddressCall ==
    /\ \E addr \in DtbAddrs :
         d_info' = SetDtbAddress(d_info, addr)
    /\ d_ret' = <<"set_dtb_address">>
    /\ UNCHANGED <<d_arch, d_blob, d_inits>>

ParseDtbCall ==
    /\ Len(d_inits) < MaxDtbParses
    /\ \E dtb_addr \in DtbAddrs :
         LET r == ParseDtb(d_arch, d_info, dtb_addr)
         IN  /\ d_info' = r.info
             /\ d_ret' = <<"parse_dtb", r.ret>>
             /\ d_inits' = Append(d_inits, dtb_addr)
    /\ UNCHANGED <<d_arch, d_blob>>

GetConfigCall ==
    /\ d_ret' = <<"get_config", GetConfig(d_info)>>
    /\ UNCHANGED <<d_arch, d_blob, d_info, d_inits>>

(***************************************************************************)
(* Specifications                                                          *)
(***************************************************************************)
\* the variables of the device-facing subsystems
devVars == <<irqVars, rebootVars, dtbVars>>

DevIdle ==
    /\ IrqIdle
    /\ RebootIdle
    /\ DtbIdle

\* the variables of the hardware-facing subsystems
hwVars == <<trapVars, panicVars, pageVars, tlbVars, consoleVars, devVars>>

vars == <<ipcVars, stackVars, lockVars, taskVars, hwVars>>

HwIdle ==
    /\ TrapIdle
    /\ PanicIdle
    /\ PageIdle
    /\ TlbReset
    /\ ConsoleIdle
    /\ DevIdle

Init ==
    /\ IpcInit
    /\ StackInit
    /\ LockInit
    /\ TaskIdle
    /\ HwIdle

notIpc == <<stackVars, lockVars, taskVars, hwVars>>

notStack == <<ipcVars, lockVars, taskVars, hwVars>>

notLock == <<ipcVars, stackVars, taskVars, hwVars>>

notTask == <<ipcVars, stackVars, lockVars, hwVars>>

coreVars == <<ipcVars, stackVars, lockVars, taskVars>>

notTrap == <<coreVars, panicVars, pageVars, tlbVars, consoleVars, devVars>>

notPanic == <<coreVars, trapVars, pageVars, tlbVars, consoleVars, devVars>>

notPage == <<coreVars, trapVars, panicVars, tlbVars, consoleVars, devVars>>

notMmu == <<coreVars, trapVars, panicVars, consoleVars, devVars>>

notTlb == <<coreVars, trapVars, panicVars, pageVars, consoleVars, devVars>>

notConsole == <<coreVars, trapVars, panicVars, pageVars, tlbVars, devVars>>

notDev == <<coreVars, trapVars, panicVars, pageVars, tlbVars, consoleVars>>

CoreIdle ==
    /\ IpcInit
    /\ StackInit
    /\ LockInit
    /\ TaskIdle
    /\ TrapIdle
    /\ PanicIdle
    /\ PageIdle
    /\ TlbReset
    /\ ConsoleIdle

\* single producer, single consumer
Next ==
    \/ SendIsFullLoadTail("p1") /\ UNCHANGED notIpc
    \/ SendIsFullLoadHead("p1") /\ UNCHANGED notIpc
    \/ SendLoadTail("p1") /\ UNCHANGED notIpc
    \/ SendWriteHeader("p1") /\ UNCHANGED notIpc
    \/ SendWritePayload("p1") /\ UNCHANGED notIpc
    \/ SendStoreTail("p1") /\ UNCHANGED notIpc
    \/ RecvIsEmptyLoadHead /\ UNCHANGED notIpc
    \/ RecvIsEmptyLoadTail /\ UNCHANGED notIpc
    \/ RecvLoadHead /\ UNCHANGED notIpc
    \/ RecvReadHeader /\ UNCHANGED notIpc
    \/ RecvReadPayload /\ UNCHANGED notIpc
    \/ RecvStoreHead /\ UNCHANGED notIpc

Spec == Init /\ [][Next]_vars

\* two contexts calling into the allocator
StackNext ==
    \/ \E x \in AllocContexts : AllocCheck(x) /\ UNCHANGED notStack
    \/ \E x \in AllocContexts : AllocWrite(x) /\ UNCHANGED notStack
    \/ \E x \in AllocContexts : DeallocCheck(x) /\ UNCHANGED notStack
    \/ \E x \in AllocContexts : DeallocWrite(x) /\ UNCHANGED notStack

SpecStack == Init /\ [][StackNext]_vars

\* contexts sharing one Spinlock
LockNext ==
    \/ \E x \in LockContexts : LockCall(x) /\ UNCHANGED notLock
    \/ \E x \in LockContexts : LockTry(x) /\ UNCHANGED notLock
    \/ \E x \in LockContexts : Unlock(x) /\ UNCHANGED notLock

SpecLock == Init /\ [][LockNext]_vars

\* the boot code starts task A; A and B switch to each other
TaskSpecInit ==
    /\ IpcInit
    /\ StackInit
    /\ LockInit
    /\ TaskInit
    /\ HwIdle

TaskNext ==
    \/ \E t \in Tasks \cup {Boot} : SwitchContext(t) /\ UNCHANGED notTask
    \/ \E t \in Tasks : RunEntry(t) /\ UNCHANGED notTask
    \/ \E t \in Tasks : RunAfterSwitch(t) /\ UNCHANGED notTask

SpecTask == TaskSpecInit /\ [][TaskNext]_vars

\* traps taken one after another on one backend
TrapSpecInit ==
    /\ IpcInit
    /\ StackInit
    /\ LockInit
    /\ TaskIdle
    /\ TrapInit
    /\ PanicIdle
    /\ PageIdle
    /\ TlbReset
    /\ ConsoleIdle
    /\ DevIdle

TrapNext ==
    \/ TakeTrap /\ UNCHANGED notTrap
    \/ RunTrapHandler("rv64i") /\ UNCHANGED notTrap
    \/ RunTrapHandler("loongarch64") /\ UNCHANGED notTrap
    \/ RunTrapHandler("armv9") /\ UNCHANGED notTrap
    \/ RunTrapHandler("mips64") /\ UNCHANGED notTrap
    \/ RunTrapHandler("amd64") /\ UNCHANGED notTrap
    \/ TrapReturn /\ UNCHANGED notTrap

SpecTrap == TrapSpecInit /\ [][TrapNext]_vars

\* kernel code, device interrupts and the panic routine
PanicSpecInit ==
    /\ IpcInit
    /\ StackInit
    /\ LockInit
    /\ TaskIdle
    /\ TrapIdle
    /\ PanicInit
    /\ PageIdle
    /\ TlbReset
    /\ ConsoleIdle
    /\ DevIdle

PanicNext ==
    \/ EnableInterrupts /\ UNCHANGED notPanic
    \/ DisableInterrupts /\ UNCHANGED notPanic
    \/ IrqEnter /\ UNCHANGED notPanic
    \/ IrqReturn /\ UNCHANGED notPanic
    \/ PanicFromKernel /\ UNCHANGED notPanic
    \/ PanicFromTrap /\ UNCHANGED notPanic
    \/ PanicPrint /\ UNCHANGED notPanic
    \/ HaltLoop /\ UNCHANGED notPanic

SpecPanic == PanicSpecInit /\ [][PanicNext]_vars

\* map_page calls on a zeroed root table
MapSpecInit ==
    /\ IpcInit
    /\ StackInit
    /\ LockInit
    /\ TaskIdle
    /\ TrapIdle
    /\ PanicIdle
    /\ MapInit
    /\ TlbReset
    /\ ConsoleIdle
    /\ DevIdle

MapNext ==
    \E va \in MapVAddrs, pa \in MapPAddrs :
        \E flags \in {KernelFlags(m_arch), ReadOnlyFlags(m_arch)} :
            MapPageCall(va, pa, flags) /\ UNCHANGED notPage

SpecMap == MapSpecInit /\ [][MapNext]_vars

\* init_mmu from its first statement to its return
MmuSpecInit ==
    /\ IpcInit
    /\ StackInit
    /\ LockInit
    /\ TaskIdle
    /\ TrapIdle
    /\ PanicIdle
    /\ MmuInit
    /\ ConsoleIdle
    /\ DevIdle

MmuNext ==
    \/ SetupInitialPaging /\ UNCHANGED notMmu
    \/ InitTlbClearAll /\ UNCHANGED notMmu
    \/ InitMapTlbEntry /\ UNCHANGED notMmu
    \/ EnableStep /\ UNCHANGED notMmu

SpecMmuInit == MmuSpecInit /\ [][MmuNext]_vars

\* map_tlb_entry calls with distinct indexes on a TLB after reset
TlbSpecInit ==
    /\ IpcInit
    /\ StackInit
    /\ LockInit
    /\ TaskIdle
    /\ TrapIdle
    /\ PanicIdle
    /\ PageIdle
    /\ TlbReset
    /\ ConsoleIdle
    /\ DevIdle

TlbNext ==
    \E tlb_index \in TlbIndexes, virtual_addr \in TlbVAddrs :
        MapTlbEntryCall(tlb_index, virtual_addr) /\ UNCHANGED notTlb

SpecTlb == TlbSpecInit /\ [][TlbNext]_vars

\* one write_str call and the UART it writes to
ConsoleSpecInit ==
    /\ IpcInit
    /\ StackInit
    /\ LockInit
    /\ TaskIdle
    /\ TrapIdle
    /\ PanicIdle
    /\ PageIdle
    /\ TlbReset
    /\ ConsoleInit
    /\ DevIdle

ConsoleNext ==
    \/ WriteStrMatch /\ UNCHANGED notConsole
    \/ WriteStrReturn /\ UNCHANGED notConsole
    \/ WriteByteCall /\ UNCHANGED notConsole
    \/ WriteBytePoll /\ UNCHANGED notConsole
    \/ WriteByteData /\ UNCHANGED notConsole
    \/ WriteByteReturn /\ UNCHANGED notConsole
    \/ UartStatusChange /\ UNCHANGED notConsole

SpecConsole == ConsoleSpecInit /\ [][ConsoleNext]_vars

\* two producers serialized by a Spinlock, one consumer
LockedIpcNext ==
    \/ \E p \in Producers : ProducerLock(p) /\ UNCHANGED <<stackVars, taskVars, hwVars>>
    \/ \E p \in Producers : ProducerLockTry(p) /\ UNCHANGED <<stackVars, taskVars, hwVars>>
    \/ \E p \in Producers : ProducerSend(p) /\ UNCHANGED <<stackVars, taskVars, hwVars>>
    \/ \E p \in Producers : ProducerUnlock(p) /\ UNCHANGED <<stackVars, taskVars, hwVars>>
    \/ ConsumerReceive /\ UNCHANGED <<stackVars, taskVars, hwVars>>

SpecLockedIpc == Init /\ [][LockedIpcNext]_vars

SparcTrapSpecInit ==
    /\ IpcInit
    /\ StackInit
    /\ LockInit
    /\ TaskIdle
    /\ SparcTrapInit
    /\ PanicIdle
    /\ PageIdle
    /\ TlbReset
    /\ ConsoleIdle
    /\ DevIdle

SparcTrapNext ==
    \/ TakeTrap /\ UNCHANGED notTrap
    \/ RunTrapHandler("sparcv9") /\ UNCHANGED notTrap
    \/ TrapReturn /\ UNCHANGED notTrap

SpecSparcTrap == SparcTrapSpecInit /\ [][SparcTrapNext]_vars

IrqSpecInit ==
    /\ CoreIdle
    /\ IrqInit
    /\ RebootIdle
    /\ DtbIdle

IrqNext ==
    \/ IcInitCall /\ UNCHANGED <<notDev, rebootVars, dtbVars>>
    \/ IcEnableIrq /\ UNCHANGED <<notDev, rebootVars, dtbVars>>
    \/ IcDisableIrq /\ UNCHANGED <<notDev, rebootVars, dtbVars>>
    \/ IcRaise /\ UNCHANGED <<notDev, rebootVars, dtbVars>>
    \/ IcTrapInterrupt /\ UNCHANGED <<notDev, rebootVars, dtbVars>>
    \/ IcHandleExternalInterrupts /\ UNCHANGED <<notDev, rebootVars, dtbVars>>

SpecIrq == IrqSpecInit /\ [][IrqNext]_vars

RebootSpecInit ==
    /\ CoreIdle
    /\ IrqIdle
    /\ RebootInit
    /\ DtbIdle

RebootNext ==
    \/ SystemRebootCall /\ UNCHANGED <<notDev, irqVars, dtbVars>>
    \/ SystemRebootStep /\ UNCHANGED <<notDev, irqVars, dtbVars>>
    \/ HaltLoopStep /\ UNCHANGED <<notDev, irqVars, dtbVars>>
    \/ RebootWake /\ UNCHANGED <<notDev, irqVars, dtbVars>>

SpecReboot == RebootSpecInit /\ [][RebootNext]_vars

DtbSpecInit ==
    /\ CoreIdle
    /\ IrqIdle
    /\ RebootIdle
    /\ DtbInit

DtbNext ==
    \/ SetDtbAddressCall /\ UNCHANGED <<notDev, irqVars, rebootVars>>
    \/ ParseDtbCall /\ UNCHANGED <<notDev, irqVars, rebootVars>>
    \/ GetConfigCall /\ UNCHANGED <<notDev, irqVars, rebootVars>>

SpecDtb == DtbSpecInit /\ [][DtbNext]_vars

\* the CPU keeps executing, and the hlt / wfi inside an attempt ends: the
\* attempt returns
SpecRebootLive ==
    /\ SpecReboot
    /\ WF_vars(SystemRebootCall /\ UNCHANGED <<notDev, irqVars, dtbVars>>)
    /\ WF_vars(SystemRebootStep /\ UNCHANGED <<notDev, irqVars, dtbVars>>)
    /\ WF_vars(RebootWake /\ UNCHANGED <<notDev, irqVars, dtbVars>>)

(***************************************************************************)
(* Properties of the queue with one producer and one consumer              *)
(***************************************************************************)
\* the messages handed to send so far
Handed == {MakeMessage(SenderId("p1"), k) : k \in 1 .. sendCalls}

InFlight == IF p_pc["p1"] = "idle" THEN {} ELSE {p_message["p1"]}

\* C1: under every interleaving of the steps of send and receive, the
\* messages receive returned are, record for record and in order, a prefix of
\* the messages send accepted, and all of them once the ring is empty; a
\* message handed to send is accepted, rejected with Err, or still in flight,
\* so only rejected messages are missing.
C1_FifoOrder ==
    /\ Len(received) <= Len(sentOk)
    /\ received = SubSeq(sentOk, 1, Len(received))
    /\ (head = tail) => (received = sentOk)
    /\ Handed = Range(sentOk) \cup rejected \cup InFlight
    /\ Range(sentOk) \cap rejected = {}

\* C1 witness: the indices have gone around the ring, a send was rejected,
\* and the consumer is copying a slot out while the producer is copying
\* another message in.
C1_Witness ==
    /\ Len(received) > QUEUE_DEPTH
    /\ rejected # {}
    /\ c_pc = "read_payload"
    /\ p_pc["p1"] = "write_payload"

\* C2: the step in which send evaluates is_full returns Err exactly when 7
\* messages are pending, and goes on to store the message when 0..6 are.
C2_RejectIffSevenPending ==
    [][(p_pc["p1"] = "is_full_head" /\ p_pc'["p1"] # "is_full_head")
         => /\ Pending \in 0 .. 7
            /\ (p_pc'["p1"] = "idle" /\ p_ret'["p1"][1] = "Err") <=> (Pending = 7)
            /\ (p_pc'["p1"] = "load_tail") <=> (Pending \in 0 .. 6)]_vars

\* C2 witness: a send has just been rejected with 7 messages pending, after
\* an earlier lap of the ring.
C2_Witness ==
    /\ p_pc["p1"] = "idle"
    /\ p_ret["p1"][1] = "Err"
    /\ Pending = 7
    /\ Len(received) > 0

\* C3: a send that finds the ring full returns Err with exactly the message
\* it was given, and no step of that call changes head, tail or a slot.
C3_FullSendLossless ==
    [][/\ (p_pc["p1"] = "idle" /\ p_pc'["p1"] = "is_full_head")
           => (head' = head /\ tail' = tail /\ messages' = messages)
       /\ (p_pc["p1"] = "is_full_head" /\ p_pc'["p1"] = "idle")
           => /\ p_ret'["p1"] = <<"Err", p_message["p1"]>>
              /\ p_message["p1"] \in Handed
              /\ head' = head /\ tail' = tail /\ messages' = messages]_vars

\* C3 witness: send has returned Err with its own message while every
\* pending message still sits in its slot.
C3_Witness ==
    /\ p_pc["p1"] = "idle"
    /\ p_ret["p1"] = <<"Err", p_message["p1"]>>
    /\ c_pc = "idle"
    /\ Len(sentOk) - Len(received) = QUEUE_DEPTH - 1
    /\ \A i \in 1 .. (QUEUE_DEPTH - 1) :
          messages[(head + i - 1) % QUEUE_DEPTH] = sentOk[Len(received) + i]

(***************************************************************************)
(* Properties of the task stack allocator                                  *)
(***************************************************************************)
\* C4: when two contexts are inside allocate_stack for the same free slot at
\* the same time, exactly one of the two calls returns Ok and the other
\* returns Err(ResourceBusy).
C4_ExactlyOneAllocates ==
    \A x \in AllocContexts :
        LET y == OtherContext(x)
        IN  (/\ a_pc[x] = "idle" /\ a_pc[y] = "idle"
             /\ a_overlap[x] /\ a_overlap[y]
             /\ a_task[x] = a_task[y])
            => \/ a_ret[x][1] = "Ok" /\ a_ret[y] = <<"Err", "ResourceBusy">>
               \/ a_ret[y][1] = "Ok" /\ a_ret[x] = <<"Err", "ResourceBusy">>

\* C5: the stack tops two contexts hold from successful allocate_stack calls
\* for distinct task ids differ by at least TASK_STACK_SIZE, so the ranges
\* [top - TASK_STACK_SIZE, top) do not overlap.
C5_StackTopsApart ==
    \A x, y \in AllocContexts :
        (/\ a_ret[x][1] = "Ok" /\ Len(a_ret[x]) = 2
         /\ a_ret[y][1] = "Ok" /\ Len(a_ret[y]) = 2
         /\ a_task[x] # a_task[y])
        => LET tx == a_ret[x][2]
               ty == a_ret[y][2]
           IN  /\ (tx - ty >= TASK_STACK_SIZE) \/ (ty - tx >= TASK_STACK_SIZE)
               /\ (tx <= ty - TASK_STACK_SIZE) \/ (ty <= tx - TASK_STACK_SIZE)

\* C5 witness: the stacks of the neighbouring tasks 0 and 1 are allocated at
\* the same time.
C5_Witness ==
    /\ a_ret["x"][1] = "Ok" /\ Len(a_ret["x"]) = 2 /\ a_task["x"] = 0
    /\ a_ret["y"][1] = "Ok" /\ Len(a_ret["y"]) = 2 /\ a_task["y"] = 1
    /\ is_allocated[0] /\ is_allocated[1]

\* C6: an allocate_stack(i) that begins after an allocate_stack(i) returned
\* Ok, with no deallocate_stack(i) having returned Ok since, returns
\* Err(ResourceBusy) and changes no occupancy flag.
C6_DoubleAllocateBusy ==
    [][\A x \in AllocContexts :
         (AllocCheck(x) /\ a_task'[x] \in owned)
         => /\ a_ret'[x] = <<"Err", "ResourceBusy">>
            /\ a_pc'[x] = "idle"
            /\ is_allocated' = is_allocated
            /\ owned' = owned]_vars

\* C6 witness: one context holds slot 0 and the other has just been refused it.
C6_Witness ==
    /\ a_task["x"] = 0 /\ a_ret["x"][1] = "Ok" /\ Len(a_ret["x"]) = 2
    /\ a_task["y"] = 0 /\ a_ret["y"] = <<"Err", "ResourceBusy">>
    /\ a_pc["x"] = "idle" /\ a_pc["y"] = "idle"
    /\ 0 \in owned

\* C7: deallocate_stack(i) with i < MAX_TASKS goes on to return Ok exactly
\* when slot i is allocated at the time of the call, and then clears that flag
\* and no other; otherwise it returns Err(NotFound) and changes no flag; with
\* i >= MAX_TASKS it returns Err(InvalidArgument) and changes no flag.
C7_DeallocateResult ==
    [][\A x \in AllocContexts :
         /\ DeallocCheck(x)
            => LET i == a_task'[x]
               IN  /\ is_allocated' = is_allocated
                   /\ (i >= MAX_TASKS)
                      => (a_ret'[x] = <<"Err", "InvalidArgument">> /\ a_pc'[x] = "idle")
                   /\ (i < MAX_TASKS /\ i \notin owned)
                      => (a_ret'[x] = <<"Err", "NotFound">> /\ a_pc'[x] = "idle")
                   /\ (i < MAX_TASKS /\ i \in owned)
                      => a_pc'[x] = "dealloc_write"
         /\ DeallocWrite(x)
            => /\ a_ret'[x] = <<"Ok">>
               /\ \A j \in 0 .. (MAX_TASKS - 1) :
                     is_allocated'[j] = IF j = a_task[x] THEN FALSE ELSE is_allocated[j]]_vars

\* C7 witness: after allocations and a release, slot 31 has been released
\* with Ok, a release of the never-allocated slot 2 was refused, and slot 0
\* is still allocated.
C7_Witness ==
    /\ a_task["x"] = MAX_TASKS - 1 /\ a_ret["x"] = <<"Ok">>
    /\ a_task["y"] = 2 /\ a_ret["y"] = <<"Err", "NotFound">>
    /\ ~is_allocated[MAX_TASKS - 1]
    /\ is_allocated[0]

(***************************************************************************)
(* Properties of the spinlock                                              *)
(***************************************************************************)
Holders == {x \in LockContexts : l_pc[x] = "held"}

\* C8: at most one context is between the return of lock() and its call of
\* unlock(), and the lock is taken while a context is there.
C8_MutualExclusion ==
    /\ Cardinality(Holders) <= 1
    /\ (Holders # {}) => locked

\* C8 witness: one context holds the lock for the second time while all the
\* others are spinning in lock().
C8_Witness ==
    \E x \in LockContexts :
        /\ l_pc[x] = "held"
        /\ l_calls[x] = 2
        /\ \A y \in LockContexts \ {x} : l_pc[y] = "lock"

(***************************************************************************)
(* Properties of the context switch                                        *)
(***************************************************************************)
\* C9: right after switch_context has switched in a context that is as
\* TaskContext::new(stack_top, entry_point) built it, the program counter is
\* entry_point and the stack pointer is stack_top.
C9_FreshContextStart ==
    \A t \in Tasks :
        (justSwitched # <<>> /\ justSwitched[2] = t /\ justSwitched[3])
        => (cpu.pc = Entry(t) /\ cpu.sp = stack_top[t])

\* C10: right after switch(CA -> CB) followed by switch(CB -> CA), both
\* sentinels are written, A is at the point after its switch call, and A's
\* stack pointer is what it was before A's switch.
C10_SwitchClosure ==
    (/\ justSwitched # <<>>
     /\ Len(switchLog) = 3
     /\ switchLog[2] = <<"A", "B">>
     /\ switchLog[3] = <<"B", "A">>)
    => /\ sentinel["A"] /\ sentinel["B"]
       /\ cpu.pc = AfterSwitch("A")
       /\ <<cpu.sp>> = sp_before["A"]

(***************************************************************************)
(* Properties of the trap handlers                                         *)
(***************************************************************************)
\* C11: on every RISC backend, once the handler has taken its system-call
\* arm it has not panicked, and it returns to the trampoline with the saved
\* instruction pointer exactly 4 bytes past its value at entry.
C11_SyscallAdvancesIp ==
    (t_arch \in RiscArchs /\ t_class = "syscall" /\ t_state # "handler")
    => (t_state # "panicked" /\ t_ctx_ip = t_ip0 + INSTR_BYTES)

\* C12: the step in which a handler takes the arm of a page fault, an
\* illegal instruction or an unknown cause ends in panic, and from panic
\* nothing returns to the interrupted code.
C12_FaultsPanic ==
    [][/\ (t_state = "handler" /\ t_class' \in {"page_fault", "illegal", "unknown"})
          => t_state' = "panicked"
       /\ t_state = "panicked" => (t_state' = "panicked" /\ t_pc' = t_pc)]_vars

\* C12 witness: after a trap that was handled and returned from, a second
\* trap was classified as a page fault and the kernel is in panic.
C12_Witness ==
    /\ t_traps = 2
    /\ t_class = "page_fault"
    /\ t_state = "panicked"

(***************************************************************************)
(* Properties of the panic routine                                         *)
(***************************************************************************)
\* C13: from the entry of panic onward, through the banner, the other lines
\* and the idle loop, no interrupt handler runs.
C13_PanicMasksInterrupts ==
    (pn_pc # "kernel") => (~pn_in_irq /\ pn_irqs_in_panic = 0)

(***************************************************************************)
(* Properties of map_page                                                  *)
(***************************************************************************)
\* C15: after any sequence of map_page calls on pairwise distinct virtual
\* pages, the walk from the root for each of them ends at a leaf entry with
\* the physical address of its call.
C15_MapPageKeepsEarlier ==
    \A k \in 1 .. Len(m_mapped) :
        Translate(m_arch, m_mem, RootTableAddr(m_base), m_mapped[k][1])
            = <<m_mapped[k][2]>>

\* C16: after any sequence of map_page calls, on the walk from the root to
\* each mapped page every intermediate entry is present, and the entry at
\* the last level is present and carries the flags of its call.
C16_WalkPathValid ==
    \A k \in 1 .. Len(m_mapped) :
        LET path == Walk(m_arch, m_mem, RootTableAddr(m_base), m_mapped[k][1])
        IN  /\ WalkEndsAtLeaf(m_arch, path)
            /\ \A j \in 1 .. Len(path) : IsPresent(m_arch, path[j])
            /\ m_mapped[k][3] \subseteq path[Len(path)].flags


(***************************************************************************)
(* Properties of init_mmu                                                  *)
(***************************************************************************)
\* C14: once init_mmu has returned, the hardware translates every 4 KiB
\* aligned virtual address below 16 MiB to the equal physical address
C14_IdentityMapped ==
    (m_phase = "done")
    => \A a \in 0 .. (IDENTITY_MAPPING_SIZE \div PAGE_SIZE) - 1 :
          HwTranslate(VAddr(0, a * PAGE_SIZE)) = {a * PAGE_SIZE}

\* C17: when init_mmu returns on a backend with a root-pointer register,
\* the register has been written, the TLB has been invalidated since that
\* write and an instruction barrier has come after the invalidation
C17_FlushAfterRootWrite ==
    (m_phase = "done" /\ m_arch \in PageTableArchs)
    => /\ \E r \in DOMAIN m_root_reg : m_root_reg[r] = <<RootTableAddr(m_base)>>
       /\ ~m_tlb_stale
       /\ ~m_pipe_stale

(***************************************************************************)
(* Properties of the MIPS-64 TLB                                           *)
(***************************************************************************)
\* C18: every entry a map_tlb_entry call was given sits in the TLB at the
\* index the call named, whatever calls with other indexes came after it
C18_EntryAtGivenIndex ==
    \A k \in 1 .. Len(tlb_req) :
        tlb[tlb_req[k][1]] =
            [hi |-> EntryHi(tlb_req[k][2]),
             lo0 |-> EntryLo(tlb_req[k][3], tlb_req[k][5]),
             lo1 |-> EntryLo(tlb_req[k][4], tlb_req[k][5]),
             mask |-> 0]


(***************************************************************************)
(* Properties of the serial console                                        *)
(***************************************************************************)
\* s with every LF replaced by CR LF
RECURSIVE CrLf(_)
CrLf(s) ==
    IF s = <<>> THEN <<>>
    ELSE (IF Head(s) = LF THEN <<CR, LF>> ELSE <<Head(s)>>) \o CrLf(Tail(s))

\* C19: when write_str(s) has returned, the bytes written to the data
\* register are, in order, s with every 0x0A replaced by 0x0D 0x0A
C19_CrLfOnWire ==
    (u_pc = "done") => (u_wire = CrLf(u_s))

\* a string with a line feed in the middle has been written out
C19_Witness ==
    /\ u_pc = "done"
    /\ u_s = <<65, LF, CR>>
    /\ u_wire = <<65, CR, LF, CR>>

\* C20: write_byte writes the data register, and returns, only after a
\* read of the line-status register in that call has shown THRE set
C20_ThreBeforeWrite ==
    [][/\ (u_wire' # u_wire) => u_seen_thre
       /\ (u_pc = "ret" /\ u_pc' # "ret") => u_seen_thre]_vars

\* the second write_byte call of a line feed has read THRE set, has
\* written its byte and is about to return
C20_Witness ==
    /\ u_pc = "ret"
    /\ u_seen_thre
    /\ u_wire = <<CR, LF>>
    /\ u_lsr = 0


(***************************************************************************)
(* Properties of the queue shared by two locked producers                  *)
(***************************************************************************)
\* the messages of seq that the producer with sender id s sent
RECURSIVE FromSender(_, _)
FromSender(seq, s) ==
    IF seq = <<>> THEN <<>>
    ELSE (IF Head(seq).sender_id = s THEN <<Head(seq)>> ELSE <<>>)
         \o FromSender(Tail(seq), s)

\* C29: with two producers that wrap every send in lock() / unlock() of
\* one Spinlock and one consumer, no message is received twice, every
\* received message is one whose send returned Ok, all of them have been
\* received once the ring is empty, and the messages of one producer are
\* received in the order that producer sent them
C29_LockedProducersExactlyOnce ==
    /\ Cardinality(Range(received)) = Len(received)
    /\ Range(received) \subseteq Range(sentOk)
    /\ (head = tail) => (Range(received) = Range(sentOk))
    /\ \A p \in Producers :
          LET r == FromSender(received, SenderId(p))
              s == FromSender(sentOk, SenderId(p))
          IN  Len(r) <= Len(s) /\ r = SubSeq(s, 1, Len(r))

\* both producers have had messages received, one of them two, while the
\* other producer spins in lock() and the first is inside send
C29_Witness ==
    /\ Len(FromSender(received, 1)) >= 2
    /\ Len(FromSender(received, 2)) >= 1
    /\ l_pc[LockContextOf("p1")] = "held"
    /\ p_pc["p1"] = "write_payload"
    /\ l_pc[LockContextOf("p2")] = "lock"

(***************************************************************************)
(* Properties of the ring indices                                          *)
(***************************************************************************)
\* C30: head and tail are in 0..7, and (tail - head) mod 8 is the number
\* of sends that returned Ok minus the number of receives that returned
\* Some, which is at most 7
C30_IndicesCountPending ==
    /\ head \in 0 .. 7
    /\ tail \in 0 .. 7
    /\ (tail - head + QUEUE_DEPTH) % QUEUE_DEPTH = Len(sentOk) - Len(received)
    /\ Len(sentOk) - Len(received) <= 7

\* the indices have wrapped: tail is behind head with messages pending
C30_Witness ==
    /\ tail < head
    /\ Len(sentOk) - Len(received) = 3
    /\ Len(received) > QUEUE_DEPTH

(***************************************************************************)
(* Properties of the interrupt controllers                                 *)
(***************************************************************************)
\* C21: once the controller's init routine has returned, every line of the
\* controller is masked, except the lines an enable_irq / unmask_irq call
\* has named since
C21_MaskedUntilEnabled ==
    (ic_arch \in IcInitArchs /\ ic_phase = "ready")
        => (IcLines(ic_arch) \cap ic_enabled) \subseteq ic_named

\* C26: a run of the trap handler's interrupt branch has claimed the pending
\* IRQ and written EOI / complete once, for that id; with nothing pending it
\* has completed nothing
C26_ClaimThenOneEoi ==
    ic_run.entry = "trap"
        => IF ic_run.had = {}
           THEN ic_run.eois = <<>>
           ELSE /\ Len(ic_run.acked) = 1
                /\ ic_run.acked[1] \in ic_run.had
                /\ ic_run.eois = ic_run.acked

\* C27: a run of handle_external_interrupts on the HT-PIC or the OpenRISC
\* PIC that found at least one line pending has sent EOI for a pending line
C27_PendingLineDispatched ==
    (ic_run.entry = "external" /\ ic_arch \in {"loongarch64", "openrisc64"}
       /\ ic_run.had # {})
        => /\ Len(ic_run.eois) = 1
           /\ ic_run.eois[1] \in ic_run.had

(***************************************************************************)
(* Properties of the SPARC V9 trap handler                                 *)
(***************************************************************************)
\* C28: a trap that entered through the system-call vector, offset 0x60, is
\* classified as Syscall by generic_trap_handler, which does not panic and
\* leaves tpc at tnpc
C28_SyscallVectorResumes ==
    (t_arch = "sparcv9" /\ t_state \in {"returned", "panicked"}
       /\ t_cause.vector = 96)
        => /\ t_class = "syscall"
           /\ t_state = "returned"
           /\ t_ctx_ip = t_ip0 + INSTR_BYTES

\* whatever trap_id the handler is given, it never takes its Syscall arm
SparcSyscallArmNeverTaken ==
    t_arch = "sparcv9" => t_class # "syscall"

(***************************************************************************)
(* Properties of system_reboot                                             *)
(***************************************************************************)
\* the attempts of the cascade have all been made
AttemptsMade ==
    /\ rb_pc # "idle"
    /\ Len(SelectSeq(rb_io, LAMBDA s : s.op \in AttemptOps))
         = Len(SelectSeq(RebootProgram(rb_fn), LAMBDA s : s.op \in AttemptOps))

C23_EcallColdReboot ==
    (rb_fn \in {"rv64i/shutdown", "rv64i/power"} /\ AttemptsMade)
        => \E k \in 1..Len(rb_io) :
              /\ rb_io[k].op = "ecall"
              /\ rb_io[k].a = <<1397904212, 0, 1, 0>>

\* C24: kbd_wait reads the status port at most 100,000 times and returns
\* (after exactly 100,000 reads when the busy bit never clears), and a
\* system_reboot that is in halt_loop has written 0xFE to port 0x64
C24_KbdWaitBounded ==
    (rb_fn = "amd64/power" /\ rb_pc # "idle" /\ rb_i > 2)
        => /\ rb_polls <= 100000
           /\ rb_busy >= 100000 => rb_polls = 100000
           /\ rb_pc = "halt_loop" => Stmt("outb", 100, 254) \in Range(rb_io)

\* C24 witness: the wait timed out, 0xFE was written all the same, the
\* controller left the machine running, and control is in halt_loop
C24_Witness ==
    /\ rb_fn = "amd64/power"
    /\ rb_busy > 100000
    /\ rb_polls = 100000
    /\ Stmt("outb", 100, 254) \in Range(rb_io)
    /\ rb_machine = "running"
    /\ rb_pc = "halt_loop"

(***************************************************************************)
(* Properties of the device-tree record                                    *)
(***************************************************************************)
\* the blob at dtb_addr is absent or does not start with the magic
NoValidBlob(dtb_addr) == dtb_addr = NullAddr \/ d_blob # FdtMagic

\* C25: when parse_dtb has been called, each time with a null pointer or
\* with a blob whose magic is not 0xD00DFEED, no call has failed and
\* get_config yields the default HardwareConfig of the backend
C25_DefaultsWithoutBlob ==
    (d_inits # <<>> /\ \A k \in 1..Len(d_inits) : NoValidBlob(d_inits[k]))
        => /\ d_ret[1] = "parse_dtb" => d_ret[2].ok
           /\ GetConfig(d_info) = Ok(DefaultHardwareConfig(d_arch))

====
